---- MODULE Spec2Model ----
(***************************************************************************)
(* Model of the agent loops and agent compositions of the repository:      *)
(*   - BaseAgent (src/unnamed/part_000): constructor, run, reset, the tool *)
(*     loop, for callers that await every run() and for callers that do    *)
(*     not;                                                                *)
(*   - Orchestrator (src/agents/07_orchestrator_pattern.js): run and its   *)
(*     parallel worker dispatch;                                           *)
(*   - contentPipeline (src/agents/06_multi_agent_pipeline.js);            *)
(*   - createAgent (src/agents/02_skilled_agent.js);                       *)
(*   - codeReview (src/agents/13_code_review_multi_agent.js) and triageBug *)
(*     (src/agents/05_research_agent.js): Promise.all fan-out and fan-in;  *)
(*   - runDebate (src/unnamed/part_001): rounds of two concurrent          *)
(*     generations, then the judge;                                        *)
(*   - runSkilledAgent (src/agents/02_skilled_agent.js) with the refund    *)
(*     tools, and the calculator's runAgent                                *)
(*     (src/agents/12_hr_recruiter_agent.js): the loops without a budget;  *)
(*   - ResearchAgent.run (src/agents/05_research_agent.js:238-280), run    *)
(*     beside BaseAgent.run against one scripted gateway and tool map;     *)
(*   - the purchase-order tools of the inventory agent                     *)
(*     (src/agents/05_research_agent.js:397-433).                          *)
(* The model gateway (chat.sendMessage, generateContent) and the tool and  *)
(* worker bodies are external collaborators: what they answer, and how     *)
(* long they take, is drawn from small sets.                               *)
(***************************************************************************)
EXTENDS Integers, Sequences, FiniteSets, TLC

VARIABLES
    script,        \* which program of the repository runs ("base_agent", "orchestrator", ...)
    \* ---- BaseAgent instance fields (part_000:34-48)
    maxSteps,      \* this.maxSteps
    stepCount,     \* this.stepCount
    totalCalls,    \* this.totalCalls
    history,       \* this.chat: the turns of the chat session, oldest first
    toolFns,       \* this.toolFns: the own keys of the object, in insertion order
    geminiModel,   \* this.geminiModel: the system instruction and the tool declarations
    sinceReset,    \* number of run() calls made on the chat session this.chat
    runsStarted,   \* number of run() calls made on the instance so far
    runLimit,      \* number of run() calls the caller makes on the instance
    \* ---- one activation of the async method run() (its locals and position)
    pc,            \* position of the activation
    runNo,         \* which run() call of the instance the activation executes
    response,      \* let response: the parts of the last gateway response
    calls,         \* const calls: the functionCall parts of that response
    idx,           \* position of the for..of loop over calls (1-based)
    toolResults,   \* const toolResults
    inflight,      \* indices of calls whose tool promise is pending
    gwCalls,       \* number of chat.sendMessage calls issued by the activation
    gwPending,     \* number of those calls that have not settled yet
    lastSent,      \* argument of the activation's last chat.sendMessage call
    result,        \* what run() returned, or the error it rejected with
    \* ---- one Orchestrator.run activation (07_orchestrator_pattern.js:161-213)
    oPc,           \* position of the activation
    oResponse,     \* let response
    oCalls,        \* const calls
    iteration,     \* let iteration
    workerPromises,\* const workerPromises: one promise per call, in call order
    oGwCalls,      \* number of chat.sendMessage calls issued
    oLastSent,     \* argument of the last chat.sendMessage call
    oResult,       \* what run() returned, or the error it rejected with
    \* ---- one contentPipeline activation (06_multi_agent_pipeline.js:85-120)
    pPc,           \* position of the activation
    pTopic,        \* the parameter topic
    research,      \* const research
    draft,         \* const draft
    finalArticle,  \* const finalArticle
    qualityReport, \* const qualityReport
    llmCalls,      \* the llmCall invocations made so far, oldest first
    llmPending,    \* indices of the llmCall invocations that have not settled
    pResult,       \* what contentPipeline returned, or the error it rejected with
    \* ---- one createAgent call (02_skilled_agent.js:193-215)
    skillsArg,     \* the parameter skills (empty before the call)
    agentParts,    \* what createAgent returned
    \* ---- one codeReview activation (13_code_review_multi_agent.js:67-94) or one
    \* triageBug activation (05_research_agent.js:773-864)
    fPc,           \* position of the activation
    latency,       \* how long each call of the first Promise.all takes to settle
    clock,         \* Date.now() - start
    branches,      \* the promises handed to the first Promise.all, in array order
    joinArgs,      \* the values destructured from the first Promise.all
    joinPromises,  \* the promises of the calls made after the first Promise.all
    fResult,       \* what the function returned, or the error it rejected with
    triageLog,     \* const triageLog
    \* ---- one runDebate activation (part_001:60-98)
    dPc,           \* position of the activation
    dRounds,       \* the parameter rounds
    dI,            \* let i of the for loop
    lastPro,       \* let lastPro
    lastCon,       \* let lastCon
    debateRounds,  \* const debateRounds
    dLog,          \* every proAgent, conAgent and judgeAgent call so far, in call
                   \* order: its arguments, the prompt it sent and how it settled
    dResult,       \* what runDebate returned, or the error it rejected with
    \* ---- one runSkilledAgent activation (02_skilled_agent.js:220-264) or one
    \* runAgent activation of the calculator (12_hr_recruiter_agent.js:252-301)
    loopPc,        \* position of the activation
    loopResponse,  \* let response: the parts of the last gateway response
    loopRounds,    \* number of passes of the while (true) body that sent tool results
    loopTrace,     \* what happened so far, in order: messages sent to the gateway,
                   \* responses received, tool calls executed with their results
    loopResult,    \* what the function returned, or the error it rejected with
    refunds,       \* db.refunds (02_skilled_agent.js:22)
    now,           \* Date.now()
    \* ---- the gateway and the tools of a twin run, and one ResearchAgent.run
    \* activation with the instance field it uses (05_research_agent.js:238-280)
    gwScript,      \* what a scripted gateway answers to the k-th chat.sendMessage of a run
                   \* (empty when no twin run is made)
    toolScript,    \* how every call of a registered tool settles
    rPc,           \* position of the activation
    rChat,         \* this.chat: the turns of the chat session, oldest first
    rRuns,         \* number of run() calls made on the instance so far
    rStepCount,    \* this.stepCount
    rResponse,     \* let response
    rCalls,        \* const calls
    rIdx,          \* position of the for..of loop over calls (1-based)
    rToolResults,  \* const toolResults
    rGwCalls,      \* number of chat.sendMessage calls issued
    rTrace,        \* the gateway calls made and the tool requests handled, in order
    rResult,       \* what run() returned, or the error it rejected with
    \* ---- the stock and the purchase orders of the inventory agent
    \* (05_research_agent.js:321-330)
    inventory,     \* const inventory
    purchaseOrders,\* const purchaseOrders
    poReturn       \* what the last purchase-order tool call returned

agentVars == <<toolFns, maxSteps, stepCount, totalCalls, history, geminiModel, sinceReset,
               runsStarted, runLimit, pc, runNo, response, calls, idx, toolResults, inflight, gwCalls, gwPending,
               lastSent, result>>
orchVars == <<oPc, oResponse, oCalls, iteration, workerPromises, oGwCalls,
              oLastSent, oResult>>
pipeVars == <<pPc, pTopic, research, draft, finalArticle, qualityReport, llmCalls,
              llmPending, pResult>>
factoryVars == <<skillsArg, agentParts>>
fanVars == <<fPc, latency, clock, branches, joinArgs, joinPromises, fResult, triageLog>>
debateVars == <<dPc, dRounds, dI, lastPro, lastCon, debateRounds, dLog, dResult>>
adhocVars == <<loopPc, loopResponse, loopRounds, loopTrace, loopResult, refunds, now>>
researchVars == <<gwScript, toolScript, rPc, rChat, rRuns, rStepCount, rResponse, rCalls, rIdx,
                  rToolResults, rGwCalls, rTrace, rResult>>
inventoryVars == <<inventory, purchaseOrders, poReturn>>
laterVars == <<researchVars, inventoryVars>>
extraVars == <<debateVars, adhocVars, laterVars>>
compVars == <<pipeVars, factoryVars, fanVars, extraVars>>
vars == <<script, agentVars, orchVars, compVars>>

\* ------------------------------------------------------------------ bounds
MaxStepsBound == 2   \* maxSteps is drawn from 0..MaxStepsBound
MaxParts == 2        \* a response to the agent holds at most MaxParts parts
MaxOrchParts == 3    \* a response to the orchestrator holds at most MaxOrchParts parts
MaxSessionSteps == 1 \* in a session of several runs, maxSteps is drawn from 0..MaxSessionSteps
MaxSessionParts == 1 \* ... and a response holds at most MaxSessionParts parts
MaxSessionRuns == 2  \* ... and the caller makes at most MaxSessionRuns run() calls
MaxSkills == 3       \* createAgent is given at most MaxSkills skills

MaxRounds == 3        \* runDebate is called with rounds in 0..MaxRounds
MaxSkilledRounds == 2 \* the gateway of runSkilledAgent requests tools in at most
                      \* MaxSkilledRounds responses where it is free to choose them
MaxLoopRounds == 21   \* a scripted gateway of runSkilledAgent requests tools in up
                      \* to MaxLoopRounds + 1 responses on end: more rounds than
                      \* the budget of any loop of the repository (5, 15, 20)
MaxOrders == 6        \* purchaseOrders holds at most MaxOrders orders
MaxResearchRuns == 2  \* a caller makes at most MaxResearchRuns run() calls on a
                      \* ResearchAgent
MaxStock == 60        \* update_stock keeps every stock within -MaxStock..MaxStock
MaxCalcRounds == 3    \* the gateway of the calculator requests tools in at most
                      \* MaxCalcRounds responses
\* ------------------------------------------------------------------ program constants
WeatherRuns == 1       \* main() calls weatherAgent.run once
ResearchMaxSteps == 15     \* 05_research_agent.js:246
OrchMaxIterations == 5 \* while (iteration++ < 5)

\* ------------------------------------------------------------------ values
Undefined == "undefined"     \* the JavaScript value undefined
None == [kind |-> "none"]    \* no value yet (an unset local)

\* Activations of run() that may be pending on one instance.
Acts == {1, 2}

\* The text fragments and the function names a gateway response may carry.
TextFragments == {"a", "b"}
RequestedNames == {"get_weather", "ghost", "toString"}

TextPart(t) == [kind |-> "text", text |-> t]
CallPart(n) == [kind |-> "functionCall", name |-> n]
Parts == {TextPart(t) : t \in TextFragments} \cup {CallPart(n) : n \in RequestedNames}

SeqsUpTo(S, n) == UNION {[1..k -> S] : k \in 0..n}
Responses == SeqsUpTo(Parts, MaxParts)

UserMessages == {"q"}

\* The values the parameter context of BaseAgent.run may take: null (the
\* default), a string, or an object, held as its list of keys and numbers (the
\* keys are distinct and none is an array index, so they keep their order).
NullContext == [kind |-> "null"]
StringContext(t) == [kind |-> "string", text |-> t]
ObjectContext(fields) == [kind |-> "object", fields |-> fields]
Contexts == {NullContext, StringContext(""), StringContext("c"),
             ObjectContext(<<[key |-> "k", number |-> 1],
                             [key |-> "a\"b\\c\nd", number |-> -2]>>)}

\* ------------------------------------------------------------------ toolFns
\* part_000:170-190: the own keys of the toolFns object of WeatherAgent, in
\* insertion order.
WeatherToolFns == <<"get_weather", "get_forecast">>

\* 05:136: the own keys of const toolMap, in insertion order.
ToolMap == <<"web_search", "save_note", "read_note", "list_notes", "delete_note",
             "get_datetime", "merge_notes">>

\* Object.keys(fns) as a set.
Keys(fns) == {fns[i] : i \in 1..Len(fns)}

\* The own keys of this.toolFns.
ToolFnKeys == Keys(toolFns)

\* Property names every object literal inherits from Object.prototype: a lookup
\* toolFns[name] finds them although they are no key of toolFns.
ObjectPrototypeKeys ==
    {"constructor", "hasOwnProperty", "isPrototypeOf", "propertyIsEnumerable",
     "toLocaleString", "toString", "valueOf", "__proto__", "__defineGetter__",
     "__defineSetter__", "__lookupGetter__", "__lookupSetter__"}

\* The inherited members that return when called as a plain function with one
\* object argument (this is undefined): Object.prototype.toString and Object.
\* The others convert this to an object first and throw a TypeError, and
\* __proto__ is Object.prototype itself, which is no function.
PlainCallReturns == {"toString", "constructor"}

\* The message of the TypeError of a plain call fn(args) of an inherited member
\* that does not return: toLocaleString names itself, the others fail in the
\* conversion of this.
PlainCallMessage(name) ==
    IF name = "__proto__" THEN "fn is not a function"
    ELSE IF name = "toLocaleString"
    THEN "Object.prototype.toLocaleString called on null or undefined"
    ELSE "Cannot convert undefined or null to object"

\* fns[name] for an object literal fns: the function found, or undefined.
LookupIn(fns, name) ==
    IF name \in Keys(fns) THEN [kind |-> "toolFn", name |-> name]
    ELSE IF name \in ObjectPrototypeKeys THEN [kind |-> "builtin", name |-> name]
    ELSE None

\* part_000:97: this.toolFns[name].
Lookup(name) == LookupIn(toolFns, name)

\* 05:265: toolMap[name].
ResearchLookup(name) == LookupIn(ToolMap, name)

\* fn(args) throws before anything is awaited: the inherited members that do
\* not return.
ThrowsAtCall(fn) == fn.kind = "builtin" /\ fn.name \notin PlainCallReturns

\* The args object of a requested call of the agent.
CallArgs == [city |-> "X"]

\* What a call fn(args) can do. A registered tool returns, or throws / rejects
\* with an Error, with a value that is no Error (a string), or with null /
\* undefined. Object.prototype.toString and Object, called as plain functions,
\* return.
ToolOutcomes(fn) ==
    IF fn.kind = "toolFn"
    THEN {"returns", "throwsError", "throwsValue", "throwsNullish"}
    ELSE {"returns"}

\* The value fn(args) returns: the tool's record, the string
\* "[object Undefined]" of Object.prototype.toString, or the args object itself
\* of Object(args).
ToolReturn(fn) ==
    IF fn.kind = "toolFn" THEN [data |-> fn.name]
    ELSE IF fn.name = "constructor" THEN CallArgs
    ELSE [string |-> "[object Undefined]"]

\* err.message of what a tool threw: the message of an Error, undefined for a
\* thrown string.
ThrownMessage(name, outcome) ==
    IF outcome = "throwsError" THEN "failed: " \o name ELSE Undefined

RECURSIVE JoinKeys(_)
\* Object.keys(fns).join(", ")
JoinKeys(fns) ==
    IF fns = <<>> THEN ""
    ELSE Head(fns) \o (IF Tail(fns) = <<>> THEN "" ELSE ", " \o JoinKeys(Tail(fns)))

\* The message of the Error of part_000:98.
UnknownToolMessage(name) ==
    "Unknown tool: \"" \o name \o "\". Available: " \o JoinKeys(toolFns)

\* ------------------------------------------------------------------ helpers
RECURSIVE SelectCalls(_)
\* parts.filter((p) => p.functionCall)
SelectCalls(parts) ==
    IF parts = <<>> THEN <<>>
    ELSE IF Head(parts).kind = "functionCall"
         THEN <<Head(parts)>> \o SelectCalls(Tail(parts))
         ELSE SelectCalls(Tail(parts))

RECURSIVE JoinText(_)
\* parts.map((p) => p.text || "").join("")
JoinText(parts) ==
    IF parts = <<>> THEN ""
    ELSE (IF Head(parts).kind = "text" THEN Head(parts).text ELSE "")
         \o JoinText(Tail(parts))

\* { functionResponse: { name, response } }
FunctionResponse(name, payload) == [name |-> name, response |-> payload]

\* { error: err.message, tool: name }
ErrorPayload(msg, name) == [error |-> msg, tool |-> name]

\* toolResults.push(...)
PushMutantUnshift(results, r) == <<r>> \o results
Push(results, r) == Append(results, r)

\* while (this.stepCount < this.maxSteps)
BudgetLeftMutantInclusive(steps, max) == steps <= max
BudgetLeft(steps, max) == steps < max

\* the for..of loop over calls has run out
BatchDoneMutantFirstOnly(i, cs) == i > 1
BatchDone(i, cs) == i > Len(cs)

\* part_000:81-86 and :114-118: what run() returns
SuccessResultMutantStepsBefore(text, steps) ==
    [success |-> TRUE, response |-> text, steps |-> steps - 1]
SuccessResult(text, steps) == [success |-> TRUE, response |-> text, steps |-> steps]
FailureResultMutantNoSteps(max, steps) ==
    [success |-> FALSE, error |-> "Max steps reached", max |-> max, steps |-> 0]
FailureResult(max, steps) ==
    [success |-> FALSE, error |-> "Max steps reached", max |-> max, steps |-> steps]
Rejection(err) == [rejected |-> err]

UserTurn(text) == [kind |-> "user", text |-> text]

\* The truth value of context: null and the empty string are falsy, every
\* object is truthy.
ContextGiven(context) ==
    \/ context.kind = "object"
    \/ context.kind = "string" /\ context.text # ""

RECURSIVE JsonEscape(_)
\* The characters of a string as JSON.stringify writes them between quotes: a
\* quote and a backslash get a backslash before them, a line feed, a tab, a
\* carriage return and a form feed become \n, \t, \r and \f. (The strings
\* hold no other control character and no lone surrogate.)
JsonEscape(s) ==
    IF s = "" THEN ""
    ELSE LET c == SubSeq(s, 1, 1)
         IN (IF c = "\"" THEN "\\\""
             ELSE IF c = "\\" THEN "\\\\"
             ELSE IF c = "\n" THEN "\\n"
             ELSE IF c = "\t" THEN "\\t"
             ELSE IF c = "\r" THEN "\\r"
             ELSE IF c = "\f" THEN "\\f"
             ELSE c)
            \o JsonEscape(SubSeq(s, 2, Len(s)))

RECURSIVE JoinFields(_)
\* The members of JSON.stringify(context, null, 2): one per line, indented by
\* two spaces, separated by commas; a key is written as a JSON string.
JoinFields(fields) ==
    IF fields = <<>> THEN ""
    ELSE "  \"" \o JsonEscape(Head(fields).key) \o "\": " \o ToString(Head(fields).number)
         \o (IF Tail(fields) = <<>> THEN "" ELSE ",\n" \o JoinFields(Tail(fields)))

\* JSON.stringify(context, null, 2) of an object of numbers.
JsonStringify(fields) ==
    IF fields = <<>> THEN "{}" ELSE "{\n" \o JoinFields(fields) \o "\n}"

\* part_000:65-67: const fullMessage.
FullMessage(userMessage, context) ==
    IF ContextGiven(context)
    THEN userMessage \o "\n\n[Context]:\n"
         \o (IF context.kind = "object" THEN JsonStringify(context.fields)
             ELSE context.text)
    ELSE userMessage
ToolResultTurn(results) == [kind |-> "toolResults", results |-> results]

\* A turn of the chat session: who spoke, and during which run() call.
Turn(role, run) == [role |-> role, run |-> run]

F(f, a, v) == [f EXCEPT ![a] = v]

\* part_000:141-169: the system prompt and the declared tools of WeatherAgent.
WeatherPrompt == "You are a helpful weather assistant."
ToolDeclarations == {"get_weather", "get_forecast"}

\* part_000:41-45: genAI.getGenerativeModel({ model, systemInstruction, tools }).
GetGenerativeModel(prompt, decls) == [systemInstruction |-> prompt, tools |-> decls]

\* this.geminiModel.startChat(): a chat session without any turn.
StartChat == <<>>

\* ------------------------------------------------------------------ Init
\* part_000:25-49: the constructor, for a maxSteps drawn from budgets and a
\* caller that makes runs calls of run(); nothing runs yet.
NewAgent(budgets, runs, fns) ==
    /\ toolFns = fns
    /\ maxSteps \in budgets
    /\ stepCount = 0
    /\ totalCalls = 0
    /\ history = StartChat
    /\ geminiModel = GetGenerativeModel(WeatherPrompt, ToolDeclarations)
    /\ sinceReset = 0
    /\ runsStarted = 0
    /\ runLimit = runs
    /\ pc = [a \in Acts |-> "idle"]
    /\ runNo = [a \in Acts |-> 0]
    /\ response = [a \in Acts |-> <<>>]
    /\ calls = [a \in Acts |-> <<>>]
    /\ idx = [a \in Acts |-> 0]
    /\ toolResults = [a \in Acts |-> <<>>]
    /\ inflight = [a \in Acts |-> {}]
    /\ gwCalls = [a \in Acts |-> 0]
    /\ gwPending = [a \in Acts |-> 0]
    /\ lastSent = [a \in Acts |-> None]
    /\ result = [a \in Acts |-> None]

\* new WeatherAgent(), run once by main (part_000:321-322).
AgentInit ==
    NewAgent(IF script = "base_agent" THEN 0..MaxStepsBound ELSE {0}, WeatherRuns, WeatherToolFns)

\* ------------------------------------------------------------------ BaseAgent.run
\* The caller of part_000:317-334 awaits every run() before the next call: a
\* run starts only when no other is pending, in the first free activation.
CallerAwaits(a) ==
    /\ \A b \in Acts : pc[b] = "idle"
    /\ a = 1

\* part_000:59-69: run(userMessage, context) up to the first await.
RunEntryMutantNewChat(a, msg, context) ==
    /\ script = "base_agent"
    /\ UNCHANGED <<script, orchVars, compVars>>
    /\ pc[a] = "idle"
    /\ runsStarted < runLimit
    /\ runsStarted' = runsStarted + 1
    /\ sinceReset' = sinceReset + 1
    /\ runNo' = F(runNo, a, runsStarted + 1)
    /\ stepCount' = 0
    /\ lastSent' = F(lastSent, a, UserTurn(FullMessage(msg, context)))
    /\ gwCalls' = F(gwCalls, a, 1)
    /\ gwPending' = F(gwPending, a, gwPending[a] + 1)
    /\ history' = <<Turn("user", runsStarted + 1)>>
    /\ result' = F(result, a, None)
    /\ pc' = F(pc, a, "awaitGateway")
    /\ UNCHANGED <<toolFns, maxSteps, geminiModel, runLimit, totalCalls, response, calls, idx,
                   toolResults, inflight>>
RunEntry(a, msg, context) ==
    /\ script = "base_agent"
    /\ UNCHANGED <<script, orchVars, compVars>>
    /\ pc[a] = "idle"
    /\ runsStarted < runLimit
    /\ runsStarted' = runsStarted + 1
    /\ sinceReset' = sinceReset + 1
    /\ runNo' = F(runNo, a, runsStarted + 1)
    /\ stepCount' = 0
    /\ lastSent' = F(lastSent, a, UserTurn(FullMessage(msg, context)))
    /\ gwCalls' = F(gwCalls, a, 1)
    /\ gwPending' = F(gwPending, a, gwPending[a] + 1)
    /\ history' = Append(history, Turn("user", runsStarted + 1))
    /\ result' = F(result, a, None)
    /\ pc' = F(pc, a, "awaitGateway")
    /\ UNCHANGED <<toolFns, maxSteps, geminiModel, runLimit, totalCalls, response, calls, idx,
                   toolResults, inflight>>

\* A run() call of a caller that awaits every run() before its next call.
StartRun(a, msg, context) ==
    /\ CallerAwaits(a)
    /\ RunEntry(a, msg, context)

\* part_000:69 and :111: the pending chat.sendMessage resolves with a response.
\* The iteration that sent the tool results ends here: its block-scoped calls and
\* toolResults are gone, and the gateway call that carried lastSent is over.
GatewayReply(a, resp) ==
    /\ script = "base_agent"
    /\ UNCHANGED <<script, orchVars, compVars>>
    /\ pc[a] = "awaitGateway"
    /\ response' = F(response, a, resp)
    /\ history' = Append(history, Turn("model", runNo[a]))
    /\ calls' = F(calls, a, <<>>)
    /\ toolResults' = F(toolResults, a, <<>>)
    /\ idx' = F(idx, a, 0)
    /\ lastSent' = F(lastSent, a, None)
    /\ gwPending' = F(gwPending, a, gwPending[a] - 1)
    /\ pc' = F(pc, a, "loop")
    /\ UNCHANGED <<toolFns, maxSteps, geminiModel, sinceReset, runNo, stepCount, totalCalls,
                   runsStarted, runLimit, inflight, gwCalls, result>>

\* part_000:69 and :111: the pending chat.sendMessage rejects; nothing in run()
\* catches it.
GatewayFaultMutantAsResult(a) ==
    /\ script = "base_agent"
    /\ UNCHANGED <<script, orchVars, compVars>>
    /\ pc[a] = "awaitGateway"
    /\ result' = F(result, a, [success |-> FALSE, error |-> "GatewayFault"])
    /\ gwPending' = F(gwPending, a, gwPending[a] - 1)
    /\ pc' = F(pc, a, "done")
    /\ UNCHANGED <<toolFns, maxSteps, geminiModel, sinceReset, runNo, stepCount, totalCalls, history,
                   runsStarted, runLimit, response, calls, idx, toolResults, inflight,
                   gwCalls, lastSent>>
GatewayFault(a) ==
    /\ script = "base_agent"
    /\ UNCHANGED <<script, orchVars, compVars>>
    /\ pc[a] = "awaitGateway"
    /\ result' = F(result, a, Rejection("GatewayFault"))
    /\ gwPending' = F(gwPending, a, gwPending[a] - 1)
    /\ pc' = F(pc, a, "rejected")
    /\ UNCHANGED <<toolFns, maxSteps, geminiModel, sinceReset, runNo, stepCount, totalCalls, history,
                   runsStarted, runLimit, response, calls, idx, toolResults, inflight,
                   gwCalls, lastSent>>

\* part_000:71-90 and :114-118: the loop test, the step count, the final answer.
LoopHead(a) ==
    /\ script = "base_agent"
    /\ UNCHANGED <<script, orchVars, compVars>>
    /\ pc[a] = "loop"
    /\ IF ~BudgetLeft(stepCount, maxSteps)
       THEN /\ result' = F(result, a, FailureResult(maxSteps, stepCount))
            /\ pc' = F(pc, a, "done")
            /\ UNCHANGED <<stepCount, calls, idx, toolResults>>
       ELSE /\ stepCount' = stepCount + 1
            /\ calls' = F(calls, a, SelectCalls(response[a]))
            /\ IF SelectCalls(response[a]) = <<>>
               THEN /\ result' = F(result, a,
                                   SuccessResult(JoinText(response[a]), stepCount + 1))
                    /\ pc' = F(pc, a, "done")
                    /\ UNCHANGED <<idx, toolResults>>
               ELSE /\ toolResults' = F(toolResults, a, <<>>)
                    /\ idx' = F(idx, a, 1)
                    /\ pc' = F(pc, a, "invoke")
                    /\ UNCHANGED result
    /\ UNCHANGED <<toolFns, maxSteps, geminiModel, sinceReset, runNo, totalCalls, history,
                   runsStarted, runLimit, response, inflight, gwCalls, gwPending, lastSent>>

\* Where the for..of loop goes after the call at position i.
AfterCall(i, cs) == IF BatchDone(i + 1, cs) THEN "send" ELSE "invoke"

\* part_000:91-100: the next call of the batch: count it, look the tool up,
\* and either record the unknown-tool error, or the TypeError of a call that
\* throws at once (no await on these paths), or call the function and await
\* what it returns.
InvokeTool(a) ==
    /\ script = "base_agent"
    /\ UNCHANGED <<script, orchVars, compVars>>
    /\ pc[a] = "invoke"
    /\ ~BatchDone(idx[a], calls[a])
    /\ totalCalls' = totalCalls + 1
    /\ LET name == calls[a][idx[a]].name
           fn == Lookup(name)
       IN IF fn = None
          THEN /\ toolResults' = F(toolResults, a,
                      Push(toolResults[a],
                           FunctionResponse(name,
                               ErrorPayload(UnknownToolMessage(name), name))))
               /\ idx' = F(idx, a, idx[a] + 1)
               /\ pc' = F(pc, a, AfterCall(idx[a], calls[a]))
               /\ UNCHANGED inflight
          ELSE IF ThrowsAtCall(fn)
          THEN /\ toolResults' = F(toolResults, a,
                      Push(toolResults[a],
                           FunctionResponse(name,
                               ErrorPayload(PlainCallMessage(name), name))))
               /\ idx' = F(idx, a, idx[a] + 1)
               /\ pc' = F(pc, a, AfterCall(idx[a], calls[a]))
               /\ UNCHANGED inflight
          ELSE /\ inflight' = F(inflight, a, inflight[a] \cup {idx[a]})
               /\ pc' = F(pc, a, "awaitTool")
               /\ UNCHANGED <<toolResults, idx>>
    /\ UNCHANGED <<toolFns, maxSteps, geminiModel, sinceReset, runNo, stepCount, history,
                   runsStarted, runLimit, response, calls, gwCalls, gwPending, lastSent,
                   result>>

\* part_000:100-107: the awaited call settles: its result is pushed, or the
\* catch block pushes { error: err.message, tool: name }. Reading err.message
\* of a thrown null / undefined throws a TypeError inside the catch block, which
\* nothing catches: run() rejects.
ToolSettle(a, outcome) ==
    /\ script = "base_agent"
    /\ UNCHANGED <<script, orchVars, compVars>>
    /\ pc[a] = "awaitTool"
    /\ LET name == calls[a][idx[a]].name
           fn == Lookup(name)
       IN /\ outcome \in ToolOutcomes(fn)
          /\ inflight' = F(inflight, a, inflight[a] \ {idx[a]})
          /\ IF outcome = "throwsNullish"
             THEN /\ result' = F(result, a, Rejection("TypeError"))
                  /\ pc' = F(pc, a, "rejected")
                  /\ UNCHANGED <<toolResults, idx>>
             ELSE /\ toolResults' = F(toolResults, a,
                         Push(toolResults[a],
                              FunctionResponse(name,
                                  IF outcome = "returns"
                                  THEN ToolReturn(fn)
                                  ELSE ErrorPayload(ThrownMessage(name, outcome), name))))
                  /\ idx' = F(idx, a, idx[a] + 1)
                  /\ pc' = F(pc, a, AfterCall(idx[a], calls[a]))
                  /\ UNCHANGED result
    /\ UNCHANGED <<toolFns, maxSteps, geminiModel, sinceReset, runNo, stepCount, totalCalls, history,
                   runsStarted, runLimit, response, calls, gwCalls, gwPending, lastSent>>

\* part_000:111: response = await this.chat.sendMessage(toolResults).
SendResults(a) ==
    /\ script = "base_agent"
    /\ UNCHANGED <<script, orchVars, compVars>>
    /\ pc[a] = "send"
    /\ lastSent' = F(lastSent, a, ToolResultTurn(toolResults[a]))
    /\ gwCalls' = F(gwCalls, a, gwCalls[a] + 1)
    /\ gwPending' = F(gwPending, a, gwPending[a] + 1)
    /\ history' = Append(history, Turn("tool", runNo[a]))
    /\ pc' = F(pc, a, "awaitGateway")
    /\ UNCHANGED <<toolFns, maxSteps, geminiModel, sinceReset, runNo, stepCount, totalCalls,
                   runsStarted, runLimit, response, calls, idx, toolResults, inflight,
                   result>>

\* part_000:322-333: the caller's await of run() completes (with the returned
\* value or the rejection); the activation is over.
Settled(a) ==
    /\ script = "base_agent"
    /\ UNCHANGED <<script, orchVars, compVars>>
    /\ pc[a] \in {"done", "rejected"}
    /\ pc' = F(pc, a, "idle")
    /\ response' = F(response, a, <<>>)
    /\ calls' = F(calls, a, <<>>)
    /\ idx' = F(idx, a, 0)
    /\ toolResults' = F(toolResults, a, <<>>)
    /\ gwCalls' = F(gwCalls, a, 0)
    /\ lastSent' = F(lastSent, a, None)
    /\ result' = F(result, a, None)
    /\ runNo' = F(runNo, a, 0)
    /\ UNCHANGED <<toolFns, maxSteps, geminiModel, sinceReset, stepCount, totalCalls, history,
                   runsStarted, runLimit, inflight, gwPending>>

\* part_000:122-126: reset(), called by a caller that has no run() pending.
ResetMutantKeepsChat ==
    /\ script = "base_agent"
    /\ UNCHANGED <<script, orchVars, compVars>>
    /\ \A b \in Acts : pc[b] = "idle"
    /\ sinceReset' = 0
    /\ stepCount' = 0
    /\ UNCHANGED <<toolFns, maxSteps, geminiModel, history, totalCalls, runsStarted, runLimit, pc,
                   runNo, response, calls, idx, toolResults, inflight, gwCalls, gwPending,
                   lastSent, result>>
ResetMutantClearsTotal ==
    /\ script = "base_agent"
    /\ UNCHANGED <<script, orchVars, compVars>>
    /\ \A b \in Acts : pc[b] = "idle"
    /\ history' = StartChat
    /\ sinceReset' = 0
    /\ stepCount' = 0
    /\ totalCalls' = 0
    /\ UNCHANGED <<toolFns, maxSteps, geminiModel, runsStarted, runLimit, pc, runNo,
                   response, calls, idx, toolResults, inflight, gwCalls, gwPending,
                   lastSent, result>>

Reset ==
    /\ script = "base_agent"
    /\ UNCHANGED <<script, orchVars, compVars>>
    /\ \A b \in Acts : pc[b] = "idle"
    /\ history' = StartChat
    /\ sinceReset' = 0
    /\ stepCount' = 0
    /\ UNCHANGED <<toolFns, maxSteps, geminiModel, totalCalls, runsStarted, runLimit, pc, runNo,
                   response, calls, idx, toolResults, inflight, gwCalls, gwPending,
                   lastSent, result>>

\* A run() call of a caller that does not await the run() it made before, as in
\* Promise.all([agent.run(x), agent.run(y)]): it starts in the first free
\* activation while another one is pending.
StartOverlappingRun(a, msg, context) ==
    /\ \A b \in Acts : b < a => pc[b] # "idle"
    /\ RunEntry(a, msg, context)

\* ------------------------------------------------------------------ Orchestrator
\* The own keys of the workers object (07_orchestrator_pattern.js:24-102).
WorkerKeys == {"code_agent", "analysis_agent", "writing_agent", "math_agent",
               "security_agent", "ux_agent"}

\* What the gateway of the orchestrator may answer.
OrchTexts == {"a"}
RequestedWorkers == {"code_agent", "math_agent", "ghost_agent"}
Tasks == {"t1"}
WorkerCall(w, t) ==
    [kind |-> "functionCall", name |-> "call_worker", worker |-> w, task |-> t]
OrchTextParts == {TextPart(t) : t \in OrchTexts}
OrchCallParts == {WorkerCall(w, t) : w \in RequestedWorkers, t \in Tasks}
OrchParts == OrchTextParts \cup OrchCallParts
\* A response of up to MaxOrchParts parts: text only, worker calls only, or a
\* text followed by worker calls (run() drops the text of a response that holds
\* a call, wherever it stands).
OrchResponses ==
    SeqsUpTo(OrchTextParts, MaxOrchParts)
    \cup SeqsUpTo(OrchCallParts, MaxOrchParts)
    \cup {<<t>> \o cs : t \in OrchTextParts, cs \in SeqsUpTo(OrchCallParts, MaxOrchParts - 1)}

\* workers[worker]: the function found, or undefined.
WorkerLookup(w) ==
    IF w \in WorkerKeys THEN [kind |-> "workerFn", name |-> w]
    ELSE IF w \in ObjectPrototypeKeys THEN [kind |-> "builtin", name |-> w]
    ELSE None

\* The text callWorker returns for a task.
WorkerOutput(w, t) == "text of " \o w \o " for " \o t

\* The inherited members that return when called as workerFn(task) with a string
\* task: Object.prototype.toString, Object, and isPrototypeOf, which answers
\* false for an argument that is no object before it looks at this.
WorkerCallReturns == {"toString", "constructor", "isPrototypeOf"}

\* workerFn(task) throws a TypeError before anything is awaited: the inherited
\* members that convert this to an object, and __proto__, which is no function.
WorkerThrowsAtCall(w) ==
    /\ WorkerLookup(w) # None
    /\ WorkerLookup(w).kind = "builtin"
    /\ w \notin WorkerCallReturns

\* What await workerFn(task) gives when it returns: the text of callWorker, the
\* string "[object Undefined]" of Object.prototype.toString, the String object
\* Object(task) holding the task, or false.
WorkerResult(w, t) ==
    IF WorkerLookup(w).kind = "workerFn" THEN WorkerOutput(w, t)
    ELSE IF w = "constructor" THEN t
    ELSE IF w = "isPrototypeOf" THEN FALSE
    ELSE "[object Undefined]"

\* A worker call may reject; the inherited members that return, return.
WorkerOutcomes(w) ==
    IF WorkerLookup(w).kind = "workerFn" THEN {"returns", "rejects"} ELSE {"returns"}

\* A promise of workerPromises: pending, fulfilled with a value or rejected; at
\* is its rank among the settled promises of the batch (0 while pending).
Pending == [state |-> "pending", value |-> None, at |-> 0]
Fulfilled(v, k) == [state |-> "fulfilled", value |-> v, at |-> k]
Rejected(k) == [state |-> "rejected", value |-> None, at |-> k]

SettledCount(ps) == Cardinality({i \in 1..Len(ps) : ps[i].state # "pending"})

\* The async callback of 07:187 ends before its first await: the worker is
\* unknown, or the call throws at once.
EndsAtDispatch(w) == WorkerLookup(w) = None \/ WorkerThrowsAtCall(w)

\* 07:187-199 up to the first await of every async callback, in call order: an
\* unknown worker's promise is fulfilled at once with the error record, the
\* promise of a call that throws at once is rejected, any other worker is called
\* and its promise is pending.
DispatchMutantFirstOnly(cs) ==
    [i \in 1..1 |->
        IF WorkerLookup(cs[i].worker) = None
        THEN Fulfilled([name |-> "call_worker",
                        response |-> [worker |-> cs[i].worker,
                                      error |-> "Unknown worker: " \o cs[i].worker]],
                       1)
        ELSE IF WorkerThrowsAtCall(cs[i].worker) THEN Rejected(1)
        ELSE Pending]
Dispatch(cs) ==
    [i \in 1..Len(cs) |->
        IF WorkerLookup(cs[i].worker) = None
        THEN Fulfilled([name |-> "call_worker",
                        response |-> [worker |-> cs[i].worker,
                                      error |-> "Unknown worker: " \o cs[i].worker]],
                       Cardinality({j \in 1..i : EndsAtDispatch(cs[j].worker)}))
        ELSE IF WorkerThrowsAtCall(cs[i].worker)
        THEN Rejected(Cardinality({j \in 1..i : EndsAtDispatch(cs[j].worker)}))
        ELSE Pending]

\* await Promise.all(workerPromises): the values, in the order of the promises.
PromiseAllValuesMutantCompletionOrder(ps) ==
    [k \in 1..Len(ps) |-> ps[CHOOSE i \in 1..Len(ps) : ps[i].at = k].value]
PromiseAllValues(ps) == [i \in 1..Len(ps) |-> ps[i].value]

\* 07:205-207: results.map((r) => ({ functionResponse: {...} }))
OrchToolResults(rs) == [i \in 1..Len(rs) |-> FunctionResponse(rs[i].name, rs[i].response)]

Returned(text) == [returned |-> text]

OrchInit ==
    /\ oPc = "idle"
    /\ oResponse = <<>>
    /\ oCalls = <<>>
    /\ iteration = 0
    /\ workerPromises = <<>>
    /\ oGwCalls = 0
    /\ oLastSent = None
    /\ oResult = None

\* 07:161-167: run(userRequest) up to the first await.
OrchStart(msg) ==
    /\ script = "orchestrator"
    /\ UNCHANGED <<script, agentVars, compVars>>
    /\ oPc = "idle"
    /\ oGwCalls = 0
    /\ oLastSent' = UserTurn(msg)
    /\ oGwCalls' = 1
    /\ oPc' = "awaitGateway"
    /\ UNCHANGED <<oResponse, oCalls, iteration, workerPromises, oResult>>

\* 07:167 and :209: the pending chat.sendMessage resolves; the iteration that
\* sent the results is over.
OrchGatewayReply(resp) ==
    /\ script = "orchestrator"
    /\ UNCHANGED <<script, agentVars, compVars>>
    /\ oPc = "awaitGateway"
    /\ oResponse' = resp
    /\ oCalls' = <<>>
    /\ workerPromises' = <<>>
    /\ oLastSent' = None
    /\ oPc' = "loop"
    /\ UNCHANGED <<iteration, oGwCalls, oResult>>

\* 07:167 and :209: the pending chat.sendMessage rejects.
OrchGatewayFault ==
    /\ script = "orchestrator"
    /\ UNCHANGED <<script, agentVars, compVars>>
    /\ oPc = "awaitGateway"
    /\ oResult' = Rejection("GatewayFault")
    /\ oPc' = "rejected"
    /\ UNCHANGED <<oResponse, oCalls, iteration, workerPromises, oGwCalls, oLastSent>>

\* 07:171: iteration++ < 5, on the value iteration has before the increment.
OrchLoopTestMutantInclusive(i) == i <= OrchMaxIterations
OrchLoopTest(i) == i < OrchMaxIterations

\* 07:171-199 and :212: the loop test with its post-increment, the final answer,
\* or the dispatch of every worker call of the turn.
OrchLoopHead ==
    /\ script = "orchestrator"
    /\ UNCHANGED <<script, agentVars, compVars>>
    /\ oPc = "loop"
    /\ iteration' = iteration + 1
    /\ IF ~OrchLoopTest(iteration)
       THEN /\ oResult' = Returned("Orchestration complete")
            /\ oPc' = "done"
            /\ UNCHANGED <<oCalls, workerPromises>>
       ELSE /\ oCalls' = SelectCalls(oResponse)
            /\ IF SelectCalls(oResponse) = <<>>
               THEN /\ oResult' = Returned(JoinText(oResponse))
                    /\ oPc' = "done"
                    /\ UNCHANGED workerPromises
               ELSE /\ workerPromises' = Dispatch(SelectCalls(oResponse))
                    /\ oPc' = "awaitWorkers"
                    /\ UNCHANGED oResult
    /\ UNCHANGED <<oResponse, oGwCalls, oLastSent>>

\* 07:196-198: a worker call settles. A worker that returns fulfils its promise
\* (and is logged in allWorkerResults, an array nothing reads: it is left out);
\* one that rejects rejects it. Workers still pending when run() has rejected go
\* on and settle.
WorkerSettle(i, outcome) ==
    /\ script = "orchestrator"
    /\ UNCHANGED <<script, agentVars, compVars>>
    /\ oPc \in {"awaitWorkers", "rejected"}
    /\ i \in 1..Len(workerPromises)
    /\ workerPromises[i].state = "pending"
    /\ outcome \in WorkerOutcomes(oCalls[i].worker)
    /\ LET w == oCalls[i].worker
           k == SettledCount(workerPromises) + 1
       IN IF outcome = "returns"
          THEN /\ workerPromises' =
                     [workerPromises EXCEPT ![i] =
                         Fulfilled([name |-> "call_worker",
                                    response |-> [worker |-> w,
                                                  result |-> WorkerResult(w, oCalls[i].task)]],
                                   k)]
          ELSE /\ workerPromises' = [workerPromises EXCEPT ![i] = Rejected(k)]
    /\ UNCHANGED <<oPc, oResponse, oCalls, iteration, oGwCalls, oLastSent, oResult>>

\* 07:201: await Promise.all(workerPromises) rejects as soon as one promise is
\* rejected; nothing in run() catches it.
OrchAbort ==
    /\ script = "orchestrator"
    /\ UNCHANGED <<script, agentVars, compVars>>
    /\ oPc = "awaitWorkers"
    /\ \E i \in 1..Len(workerPromises) : workerPromises[i].state = "rejected"
    /\ oResult' = Rejection("WorkerFault")
    /\ oPc' = "rejected"
    /\ UNCHANGED <<oResponse, oCalls, iteration, workerPromises, oGwCalls, oLastSent>>

\* 07:201-209: every promise is fulfilled: the results are mapped and sent.
OrchSendResults ==
    /\ script = "orchestrator"
    /\ UNCHANGED <<script, agentVars, compVars>>
    /\ oPc = "awaitWorkers"
    /\ \A i \in 1..Len(workerPromises) : workerPromises[i].state = "fulfilled"
    /\ oLastSent' = ToolResultTurn(OrchToolResults(PromiseAllValues(workerPromises)))
    /\ oGwCalls' = oGwCalls + 1
    /\ oPc' = "awaitGateway"
    /\ UNCHANGED <<oResponse, oCalls, iteration, workerPromises, oResult>>

\* ------------------------------------------------------------------ contentPipeline
Topics == {"T"}
StageTexts == {"x", "y"}

\* 06:85: the default style only reaches the writer's system prompt.
\* One llmCall(systemPrompt, userMessage, label) invocation.
LlmCall(label, userMessage) == [label |-> label, userMessage |-> userMessage]

\* 06:30, :47, :63, :79: the user messages the four agents build.
ResearchMessage(topic) == "Research topic in depth: " \o topic
WriterMessageMutantDropsNotes(topic, researchNotes) ==
    "Topic: " \o topic \o "\n\nResearch Notes:\n"
WriterMessage(topic, researchNotes) ==
    "Topic: " \o topic \o "\n\nResearch Notes:\n" \o researchNotes
EditorMessage(article) == "Review and improve:\n\n" \o article
QualityMessage(article, originalTopic) ==
    "Topic: " \o originalTopic \o "\n\nArticle:\n" \o article

\* 06:119: return { research, draft, finalArticle, qualityReport }
PipelineResult(r, d, f, q) ==
    [research |-> r, draft |-> d, finalArticle |-> f, qualityReport |-> q]

PipelineInit ==
    /\ pPc = "idle"
    /\ pTopic = Undefined
    /\ research = Undefined
    /\ draft = Undefined
    /\ finalArticle = Undefined
    /\ qualityReport = Undefined
    /\ llmCalls = <<>>
    /\ llmPending = {}
    /\ pResult = None

\* 06:85-96: contentPipeline({ topic }) up to its first await: the researcher is
\* called.
PipelineStart(topic) ==
    /\ script = "content_pipeline"
    /\ UNCHANGED <<script, agentVars, orchVars, extraVars, factoryVars, fanVars>>
    /\ pPc = "idle"
    /\ llmCalls = <<>>
    /\ pTopic' = topic
    /\ llmCalls' = <<LlmCall("Researcher Agent", ResearchMessage(topic))>>
    /\ llmPending' = {1}
    /\ pPc' = "awaitResearch"
    /\ UNCHANGED <<research, draft, finalArticle, qualityReport, pResult>>

\* 06:96-99: the researcher returns its text; the writer is called with it.
AfterResearch(text) ==
    /\ script = "content_pipeline"
    /\ UNCHANGED <<script, agentVars, orchVars, extraVars, factoryVars, fanVars>>
    /\ pPc = "awaitResearch"
    /\ research' = text
    /\ llmCalls' = Append(llmCalls, LlmCall("Writer Agent", WriterMessage(pTopic, text)))
    /\ llmPending' = {Len(llmCalls) + 1}
    /\ pPc' = "awaitWrite"
    /\ UNCHANGED <<pTopic, draft, finalArticle, qualityReport, pResult>>

\* 06:99-102: the writer returns the draft; the editor is called with it.
AfterWrite(text) ==
    /\ script = "content_pipeline"
    /\ UNCHANGED <<script, agentVars, orchVars, extraVars, factoryVars, fanVars>>
    /\ pPc = "awaitWrite"
    /\ draft' = text
    /\ llmCalls' = Append(llmCalls, LlmCall("Editor Agent", EditorMessage(text)))
    /\ llmPending' = {Len(llmCalls) + 1}
    /\ pPc' = "awaitEdit"
    /\ UNCHANGED <<pTopic, research, finalArticle, qualityReport, pResult>>

\* 06:102-105: the editor returns the article; the quality checker is called.
AfterEdit(text) ==
    /\ script = "content_pipeline"
    /\ UNCHANGED <<script, agentVars, orchVars, extraVars, factoryVars, fanVars>>
    /\ pPc = "awaitEdit"
    /\ finalArticle' = text
    /\ llmCalls' = Append(llmCalls, LlmCall("Quality Agent", QualityMessage(text, pTopic)))
    /\ llmPending' = {Len(llmCalls) + 1}
    /\ pPc' = "awaitQuality"
    /\ UNCHANGED <<pTopic, research, draft, qualityReport, pResult>>

\* 06:105-119: the quality checker returns; the pipeline returns the four texts.
AfterQuality(text) ==
    /\ script = "content_pipeline"
    /\ UNCHANGED <<script, agentVars, orchVars, extraVars, factoryVars, fanVars>>
    /\ pPc = "awaitQuality"
    /\ qualityReport' = text
    /\ llmPending' = {}
    /\ pResult' = PipelineResult(research, draft, finalArticle, text)
    /\ pPc' = "done"
    /\ UNCHANGED <<pTopic, research, draft, finalArticle, llmCalls>>

\* 06:15-16 under 06:96-105: the pending llmCall rejects (generateContent
\* rejects, or result.response.text() throws); no stage of contentPipeline
\* catches it.
StageFaultMutantSkipsStage ==
    /\ script = "content_pipeline"
    /\ UNCHANGED <<script, agentVars, orchVars, extraVars, factoryVars, fanVars>>
    /\ pPc \in {"awaitResearch", "awaitWrite", "awaitEdit"}
    /\ llmCalls' = Append(llmCalls, LlmCall("Quality Agent", QualityMessage("", pTopic)))
    /\ llmPending' = {Len(llmCalls) + 1}
    /\ pPc' = "awaitQuality"
    /\ UNCHANGED <<pTopic, research, draft, finalArticle, qualityReport, pResult>>
StageFault ==
    /\ script = "content_pipeline"
    /\ UNCHANGED <<script, agentVars, orchVars, extraVars, factoryVars, fanVars>>
    /\ pPc \in {"awaitResearch", "awaitWrite", "awaitEdit", "awaitQuality"}
    /\ llmPending' = {}
    /\ pResult' = Rejection("StageFault")
    /\ pPc' = "rejected"
    /\ UNCHANGED <<pTopic, research, draft, finalArticle, qualityReport, llmCalls>>

\* ------------------------------------------------------------------ createAgent
\* 02:28-188: the tool names of the three skills of the file, and a fourth
\* skill whose tools object declares track_order as well.
OrderTrackingSkill ==
    [name |-> "Order Tracking", tools |-> {"track_order", "list_all_orders"}]
RefundSkill ==
    [name |-> "Refund Processing", tools |-> {"process_refund", "check_refund_status"}]
ProductSkill ==
    [name |-> "Product Information",
     tools |-> {"get_product", "search_products", "check_stock"}]
OrderLookupSkill == [name |-> "Order Lookup", tools |-> {"track_order"}]
SkillSet == {OrderTrackingSkill, RefundSkill, ProductSkill, OrderLookupSkill}

\* skill.tools: the function stored under each tool name of the skill.
SkillTools(skill) == [n \in skill.tools |-> [fnOf |-> skill.name, tool |-> n]]

\* { ...acc, ...tools }: the keys of both, a key of tools taking its value.
Spread(acc, tools) ==
    [n \in DOMAIN acc \cup DOMAIN tools |-> IF n \in DOMAIN tools THEN tools[n] ELSE acc[n]]

RECURSIVE MergeToolFns(_, _)
\* 02:209: skills.reduce((acc, skill) => ({ ...acc, ...skill.tools }), {})
MergeToolFns(acc, skills) ==
    IF skills = <<>> THEN acc
    ELSE MergeToolFns(Spread(acc, SkillTools(Head(skills))), Tail(skills))

\* The empty object {}.
EmptyObject == [n \in {} |-> None]

RECURSIVE DeclaredCount(_)
\* 02:212: the length of skills.flatMap((s) => s.toolDeclarations)
DeclaredCount(skills) ==
    IF skills = <<>> THEN 0
    ELSE Cardinality(Head(skills).tools) + DeclaredCount(Tail(skills))

FactoryInit ==
    /\ skillsArg = <<>>
    /\ agentParts = None

\* 02:193-215: createAgent(agentName, skills); it has no failure path.
CreateAgent(skills) ==
    /\ script = "create_agent"
    /\ UNCHANGED <<script, agentVars, orchVars, extraVars, pipeVars, fanVars>>
    /\ agentParts = None
    /\ skillsArg' = skills
    /\ agentParts' = [allToolFns |-> MergeToolFns(EmptyObject, skills),
                      declared |-> DeclaredCount(skills)]

\* ------------------------------------------------------------------ Promise.all fan-out
\* How long a generateContent call may take, in time units.
Latencies == {50, 100, 200}
ReviewTexts == {"x", "y"}

\* codeReview and triageBug call every branch inside the array literal handed
\* to Promise.all, before anything is awaited: branch i starts at time 0,
\* whatever the latencies of the branches before it.
StartedAtMutantSequential(i, lats) == IF i = 1 THEN 0 ELSE IF i = 2 THEN lats[1] ELSE lats[1] + lats[2]
StartedAt(i, lats) == 0

\* When branch i settles.
DueAt(i, lats) == StartedAt(i, lats) + lats[i]

\* The pending promise that settles next is one with the least due time.
NextDue(i, ps, lats) ==
    /\ i \in 1..Len(ps)
    /\ ps[i].state = "pending"
    /\ \A j \in 1..Len(ps) : ps[j].state = "pending" => DueAt(i, lats) <= DueAt(j, lats)

\* Promise.all(ps) fulfils when every promise is fulfilled, and rejects as
\* soon as one is rejected.
AllFulfilledMutantAny(ps) == \E i \in 1..Len(ps) : ps[i].state = "fulfilled"
AllFulfilled(ps) == \A i \in 1..Len(ps) : ps[i].state = "fulfilled"
SomeRejected(ps) == \E i \in 1..Len(ps) : ps[i].state = "rejected"

\* The promise at position i of ps settles.
SettleAt(ps, i, fulfilled, v) ==
    [ps EXCEPT ![i] = IF fulfilled THEN Fulfilled(v, SettledCount(ps) + 1)
                      ELSE Rejected(SettledCount(ps) + 1)]

FanInit ==
    /\ fPc = "idle"
    /\ latency = <<>>
    /\ clock = 0
    /\ branches = <<>>
    /\ joinArgs = <<>>
    /\ joinPromises = <<>>
    /\ fResult = None
    /\ triageLog = <<>>

\* ---- codeReview
\* 13:67-80: codeReview(code) up to its first await: analyzeQuality,
\* auditSecurity and suggestImprovements are called, in that order.
ReviewStart(lats) ==
    /\ script = "code_review"
    /\ UNCHANGED <<script, agentVars, orchVars, extraVars, pipeVars, factoryVars>>
    /\ fPc = "idle"
    /\ branches = <<>>
    /\ latency' = lats
    /\ branches' = <<Pending, Pending, Pending>>
    /\ fPc' = "awaitBranches"
    /\ UNCHANGED <<clock, joinArgs, joinPromises, fResult, triageLog>>

\* 13:9-13 and :77-79: a review call settles: it returns its text (the then
\* callback logs and passes it on) or it rejects. Calls still pending when
\* codeReview has rejected go on and settle.
ReviewBranchSettle(i, outcome, text) ==
    /\ script = "code_review"
    /\ UNCHANGED <<script, agentVars, orchVars, extraVars, pipeVars, factoryVars>>
    /\ fPc \in {"awaitBranches", "rejected"}
    /\ NextDue(i, branches, latency)
    /\ clock' = DueAt(i, latency)
    /\ branches' = SettleAt(branches, i, outcome = "returns", text)
    /\ UNCHANGED <<fPc, latency, joinArgs, joinPromises, fResult, triageLog>>

\* 13:76: Promise.all rejects; nothing in codeReview catches it.
ReviewAbortMutantDegrades ==
    /\ script = "code_review"
    /\ UNCHANGED <<script, agentVars, orchVars, extraVars, pipeVars, factoryVars>>
    /\ fPc = "awaitBranches"
    /\ SomeRejected(branches)
    /\ \A i \in 1..Len(branches) : branches[i].state # "pending"
    /\ joinArgs' = PromiseAllValues(branches)
    /\ joinPromises' = <<Pending>>
    /\ fPc' = "awaitJoin"
    /\ UNCHANGED <<latency, clock, branches, fResult, triageLog>>
ReviewAbort ==
    /\ script = "code_review"
    /\ UNCHANGED <<script, agentVars, orchVars, extraVars, pipeVars, factoryVars>>
    /\ fPc = "awaitBranches"
    /\ SomeRejected(branches)
    /\ fResult' = Rejection("BranchFault")
    /\ fPc' = "rejected"
    /\ UNCHANGED <<latency, clock, branches, joinArgs, joinPromises, triageLog>>

\* 13:76-83: Promise.all fulfils: its values are destructured into quality,
\* security and improvements, and synthesizeReport is called with them.
ReviewFanIn ==
    /\ script = "code_review"
    /\ UNCHANGED <<script, agentVars, orchVars, extraVars, pipeVars, factoryVars>>
    /\ fPc = "awaitBranches"
    /\ AllFulfilled(branches)
    /\ joinArgs' = PromiseAllValues(branches)
    /\ joinPromises' = <<Pending>>
    /\ fPc' = "awaitJoin"
    /\ UNCHANGED <<latency, clock, branches, fResult, triageLog>>

\* 13:83-94: synthesizeReport settles: the report is printed and codeReview
\* returns (nothing), or codeReview rejects.
ReportSettle(outcome, text) ==
    /\ script = "code_review"
    /\ UNCHANGED <<script, agentVars, orchVars, extraVars, pipeVars, factoryVars>>
    /\ fPc = "awaitJoin"
    /\ joinPromises' = SettleAt(joinPromises, 1, outcome = "returns", text)
    /\ IF outcome = "returns"
       THEN fResult' = Returned(Undefined) /\ fPc' = "done"
       ELSE fResult' = Rejection("JoinFault") /\ fPc' = "rejected"
    /\ UNCHANGED <<latency, clock, branches, joinArgs, triageLog>>

\* ---- triageBug
\* What classifierAgent and finderAgent return: parseJSON's value (05:598-604),
\* any JSON value. A JSON string, a JSON number and null are held as
\* JsonString, JsonNumber and JsonNull, an object as the record of its members.
JsonString(t) == [string |-> t]
JsonNumber(n) == [number |-> n]
JsonNull == [json |-> "null"]
IsJsonString(v) == DOMAIN v = {"string"}
Classifications == {[severity |-> JsonString("high"), priority |-> "P1"]}
Findings == {[isDuplicate |-> d] : d \in BOOLEAN}
\* JSON that parses to a value of another shape: the object {}, null, a number,
\* and a classification whose severity is a number or null.
EmptyJson == [object |-> "{}"]
MalformedValues == {EmptyJson, JsonNull, JsonNumber(5)}
MalformedClassifications ==
    {[severity |-> JsonNumber(5), priority |-> "P1"],
     [severity |-> JsonNull, priority |-> "P1"]}
BranchValues(i) ==
    (IF i = 1 THEN Classifications \cup MalformedClassifications ELSE Findings)
    \cup MalformedValues

\* 05:787-795: the then callback of the i-th first-round agent throws a
\* TypeError: the classifier's reads r.severity.toUpperCase(), which throws for
\* null and for every value whose severity is not a string (a value without
\* severity, a severity that is a number or null); the finder's reads
\* r.isDuplicate, which throws for null only.
ThenThrows(i, r) ==
    \/ r = JsonNull
    \/ i = 1 /\ (\/ "severity" \notin DOMAIN r
                 \/ ~IsJsonString(r.severity))

\* 05:773-796: triageBug(bug) up to its first await: classifierAgent and
\* finderAgent are called, in that order.
TriageStart(lats) ==
    /\ script = "triage_bug"
    /\ UNCHANGED <<script, agentVars, orchVars, extraVars, pipeVars, factoryVars>>
    /\ fPc = "idle"
    /\ branches = <<>>
    /\ latency' = lats
    /\ branches' = <<Pending, Pending>>
    /\ fPc' = "awaitBranches"
    /\ UNCHANGED <<clock, joinArgs, joinPromises, fResult, triageLog>>

\* 05:787-795: a first-round agent settles. When it returns, its then
\* callback logs the value and passes it on; when the callback throws, the
\* promise handed to Promise.all is rejected, as it is when the agent itself
\* rejects.
TriageBranchSettle(i, outcome, value) ==
    /\ script = "triage_bug"
    /\ UNCHANGED <<script, agentVars, orchVars, extraVars, pipeVars, factoryVars>>
    /\ fPc \in {"awaitBranches", "rejected"}
    /\ NextDue(i, branches, latency)
    /\ value \in BranchValues(i)
    /\ clock' = DueAt(i, latency)
    /\ branches' = SettleAt(branches, i,
                            outcome = "returns" /\ ~ThenThrows(i, value), value)
    /\ UNCHANGED <<fPc, latency, joinArgs, joinPromises, fResult, triageLog>>

\* 05:786: the first Promise.all rejects; nothing in triageBug catches it.
TriageAbort ==
    /\ script = "triage_bug"
    /\ UNCHANGED <<script, agentVars, orchVars, extraVars, pipeVars, factoryVars>>
    /\ fPc = "awaitBranches"
    /\ SomeRejected(branches)
    /\ fResult' = Rejection("BranchFault")
    /\ fPc' = "rejected"
    /\ UNCHANGED <<latency, clock, branches, joinArgs, joinPromises, triageLog>>

\* 05:786-809: the first Promise.all fulfils: classification and findings are
\* destructured, and responderAgent and devBrieferAgent are called with them.
TriageFanIn ==
    /\ script = "triage_bug"
    /\ UNCHANGED <<script, agentVars, orchVars, extraVars, pipeVars, factoryVars>>
    /\ fPc = "awaitBranches"
    /\ AllFulfilled(branches)
    /\ joinArgs' = PromiseAllValues(branches)
    /\ joinPromises' = <<Pending, Pending>>
    /\ fPc' = "awaitJoin"
    /\ UNCHANGED <<latency, clock, branches, fResult, triageLog>>

\* 05:801-808: a second-round agent settles.
TriageJoinSettle(i, outcome, text) ==
    /\ script = "triage_bug"
    /\ UNCHANGED <<script, agentVars, orchVars, extraVars, pipeVars, factoryVars>>
    /\ fPc \in {"awaitJoin", "rejected"}
    /\ i \in 1..Len(joinPromises)
    /\ joinPromises[i].state = "pending"
    /\ joinPromises' = SettleAt(joinPromises, i, outcome = "returns", text)
    /\ UNCHANGED <<fPc, latency, clock, branches, joinArgs, fResult, triageLog>>

\* 05:800: the second Promise.all rejects.
TriageJoinAbort ==
    /\ script = "triage_bug"
    /\ UNCHANGED <<script, agentVars, orchVars, extraVars, pipeVars, factoryVars>>
    /\ fPc = "awaitJoin"
    /\ SomeRejected(joinPromises)
    /\ fResult' = Rejection("JoinFault")
    /\ fPc' = "rejected"
    /\ UNCHANGED <<latency, clock, branches, joinArgs, joinPromises, triageLog>>

\* 05:774 and :861: the number of the bug id, and the record triageBug returns.
BugNumber(log) == 100 + Len(log) + 1
TriageResult(n, args, texts) ==
    [bugId |-> n, classification |-> args[1], findings |-> args[2],
     publicResponse |-> texts[1], internalSummary |-> texts[2]]

\* 05:800-863: the second Promise.all fulfils: the report is printed, the
\* result is pushed on triageLog and returned.
TriageFinish ==
    /\ script = "triage_bug"
    /\ UNCHANGED <<script, agentVars, orchVars, extraVars, pipeVars, factoryVars>>
    /\ fPc = "awaitJoin"
    /\ AllFulfilled(joinPromises)
    /\ LET r == TriageResult(BugNumber(triageLog), joinArgs, PromiseAllValues(joinPromises))
       IN /\ triageLog' = Append(triageLog, r)
          /\ fResult' = r
    /\ fPc' = "done"
    /\ UNCHANGED <<latency, clock, branches, joinArgs, joinPromises>>

\* ------------------------------------------------------------------ runDebate
\* lastPro, lastCon and opponentArg hold null or a text: null is Null, the text
\* t is Text(t), so that the text "null" and null differ.
Null == [kind |-> "null"]
Text(t) == [text |-> t]

\* What a generation may return; the empty text is falsy in JavaScript, the
\* text "null" is not.
DebateTexts == {"", "p", "null"}
DebateTopic == "T"
DebateContext == "C"

\* part_001:16 and :29: the test `opponentArg ? ... : ...`.
Truthy(v) == v # Null /\ v # Text("")

\* part_001:16-18: the prompt proAgent builds.
ProPrompt(topic, context, opponentArg) ==
    IF Truthy(opponentArg)
    THEN [kind |-> "counter", topic |-> topic, context |-> context, opponentSaid |-> opponentArg.text]
    ELSE [kind |-> "strongest case FOR", topic |-> topic, context |-> context]

\* part_001:29-31: the prompt conAgent builds.
ConPrompt(topic, context, opponentArg) ==
    IF Truthy(opponentArg)
    THEN [kind |-> "counter", topic |-> topic, context |-> context, opponentSaid |-> opponentArg.text]
    ELSE [kind |-> "strongest case AGAINST", topic |-> topic, context |-> context]

\* part_001:8-12: llm(system, prompt) up to its await: the generateContent
\* call is issued and its promise is pending.
Llm(agent, opponentArg, system, prompt) ==
    [agent |-> agent, opponentArg |-> opponentArg, system |-> system, prompt |-> prompt,
     state |-> "pending", reply |-> Undefined]

\* part_001:15-25
ProAgent(topic, context, opponentArg) ==
    Llm("pro", opponentArg, "STRONGLY IN FAVOR", ProPrompt(topic, context, opponentArg))

\* part_001:28-38
ConAgent(topic, context, opponentArg) ==
    Llm("con", opponentArg, "STRONGLY AGAINST", ConPrompt(topic, context, opponentArg))

\* part_001:42-44: rounds.map((r, i) => `=== Round ${i + 1} ===\nFOR: ${r.pro}
\* \n\nAGAINST: ${r.con}`).join("\n\n"): one block for each round, in the order
\* of the array; a block holds the round number, then the pro text, then the
\* con text.
TranscriptMutantConFirst(rounds) ==
    [i \in 1..Len(rounds) |-> <<"=== Round", i, "FOR:", rounds[i].con, "AGAINST:", rounds[i].pro>>]
Transcript(rounds) ==
    [i \in 1..Len(rounds) |-> <<"=== Round", i, "FOR:", rounds[i].pro, "AGAINST:", rounds[i].con>>]

\* part_001:41-57
JudgeAgent(topic, rounds, context) ==
    Llm("judge", Null, "impartial judge",
        [kind |-> "verdict", topic |-> topic, context |-> context,
         transcript |-> Transcript(rounds)])

\* part_001:71: the loop test i <= rounds.
LoopTestMutantExclusive(i, rounds) == i < rounds
LoopTest(i, rounds) == i <= rounds

\* part_001:75-80: the array literal handed to Promise.all in round i: proAgent
\* is called, then conAgent, each with the other's text of the round before
\* (lp and lc are lastPro and lastCon).
RoundCallsMutantOwnText(i, lp, lc) ==
    <<ProAgent(DebateTopic, DebateContext, IF i > 1 THEN lp ELSE Null),
      ConAgent(DebateTopic, DebateContext, IF i > 1 THEN lc ELSE Null)>>
RoundCalls(i, lp, lc) ==
    <<ProAgent(DebateTopic, DebateContext, IF i > 1 THEN lc ELSE Null),
      ConAgent(DebateTopic, DebateContext, IF i > 1 THEN lp ELSE Null)>>

\* The two calls of round i in dLog.
RoundPromises(log, i) == SubSeq(log, 2 * i - 1, 2 * i)

DebateInit ==
    /\ dPc = "idle"
    /\ dRounds = 0
    /\ dI = 0
    /\ lastPro = Null
    /\ lastCon = Null
    /\ debateRounds = <<>>
    /\ dLog = <<>>
    /\ dResult = None

\* part_001:60-80, or :60-91 when rounds < 1: runDebate up to its first await.
DebateStart(rounds) ==
    /\ script = "debate"
    /\ UNCHANGED <<script, agentVars, orchVars, pipeVars, factoryVars, fanVars, adhocVars, laterVars>>
    /\ dPc = "idle"
    /\ dRounds' = rounds
    /\ dI' = 1
    /\ IF LoopTest(1, rounds)
       THEN /\ dLog' = RoundCalls(1, Null, Null)
            /\ dPc' = "awaitRound"
       ELSE /\ dLog' = <<JudgeAgent(DebateTopic, <<>>, DebateContext)>>
            /\ dPc' = "awaitJudge"
    /\ UNCHANGED <<lastPro, lastCon, debateRounds, dResult>>

\* part_001:10-11 and :77-79: a generation of the current round settles: llm
\* returns the text (the then callback logs and passes it on), or it rejects.
\* A generation still pending when runDebate has rejected goes on and settles.
GenerationSettle(k, outcome, text) ==
    /\ script = "debate"
    /\ UNCHANGED <<script, agentVars, orchVars, pipeVars, factoryVars, fanVars, adhocVars, laterVars>>
    /\ dPc \in {"awaitRound", "rejected"}
    /\ k \in 1..Len(dLog)
    /\ dLog[k].agent # "judge"
    /\ dLog[k].state = "pending"
    /\ dLog' = [dLog EXCEPT ![k] = IF outcome = "returns"
                                   THEN [@ EXCEPT !.state = "fulfilled", !.reply = text]
                                   ELSE [@ EXCEPT !.state = "rejected"]]
    /\ UNCHANGED <<dPc, dRounds, dI, lastPro, lastCon, debateRounds, dResult>>

\* part_001:75-91: Promise.all fulfils: the texts are kept, the round is
\* pushed, and the next round's calls are made, or the judge's after the last
\* round.
RoundJoin ==
    /\ script = "debate"
    /\ UNCHANGED <<script, agentVars, orchVars, pipeVars, factoryVars, fanVars, adhocVars, laterVars>>
    /\ dPc = "awaitRound"
    /\ AllFulfilled(RoundPromises(dLog, dI))
    /\ LET pro == RoundPromises(dLog, dI)[1].reply
           con == RoundPromises(dLog, dI)[2].reply
           pushed == Append(debateRounds, [pro |-> pro, con |-> con])
       IN /\ lastPro' = Text(pro)
          /\ lastCon' = Text(con)
          /\ debateRounds' = pushed
          /\ dI' = dI + 1
          /\ IF LoopTest(dI + 1, dRounds)
             THEN /\ dLog' = dLog \o RoundCalls(dI + 1, Text(pro), Text(con))
                  /\ dPc' = "awaitRound"
             ELSE /\ dLog' = Append(dLog, JudgeAgent(DebateTopic, pushed, DebateContext))
                  /\ dPc' = "awaitJudge"
    /\ UNCHANGED <<dRounds, dResult>>

\* part_001:75: Promise.all rejects; nothing in runDebate catches it.
DebateAbort ==
    /\ script = "debate"
    /\ UNCHANGED <<script, agentVars, orchVars, pipeVars, factoryVars, fanVars, adhocVars, laterVars>>
    /\ dPc = "awaitRound"
    /\ SomeRejected(RoundPromises(dLog, dI))
    /\ dResult' = Rejection("GenerationFault")
    /\ dPc' = "rejected"
    /\ UNCHANGED <<dRounds, dI, lastPro, lastCon, debateRounds, dLog>>

\* part_001:91-97: the judge's generation settles: runDebate returns the topic,
\* the rounds and the verdict, or it rejects.
JudgeSettle(outcome, text) ==
    /\ script = "debate"
    /\ UNCHANGED <<script, agentVars, orchVars, pipeVars, factoryVars, fanVars, adhocVars, laterVars>>
    /\ dPc = "awaitJudge"
    /\ IF outcome = "returns"
       THEN /\ dLog' = [dLog EXCEPT ![Len(dLog)] = [@ EXCEPT !.state = "fulfilled", !.reply = text]]
            /\ dResult' = [topic |-> DebateTopic, rounds |-> debateRounds, verdict |-> text]
            /\ dPc' = "done"
       ELSE /\ dLog' = [dLog EXCEPT ![Len(dLog)] = [@ EXCEPT !.state = "rejected"]]
            /\ dResult' = Rejection("GenerationFault")
            /\ dPc' = "rejected"
    /\ UNCHANGED <<dRounds, dI, lastPro, lastCon, debateRounds>>

\* ------------------------------------------------------------------ loops without a budget
\* A functionCall part with its arguments.
ArgCallPart(n, args) == [kind |-> "functionCall", name |-> n, args |-> args]

\* What happened in a loop: a message sent to the gateway, a response received
\* from it, a tool call executed.
SentUser(text) == [ev |-> "sendUser", text |-> text]
SentResults(results) == [ev |-> "sendResults", results |-> results]
Received(parts) == [ev |-> "receive", parts |-> parts]
Executed(name, args, value) == [ev |-> "execute", name |-> name, args |-> args, value |-> value]

\* The outcome of a synchronous tool call: it returned value, or it threw.
Returns(value, rf, t) == [threw |-> FALSE, value |-> value, refunds |-> rf, now |-> t]
Throws(rf, t) == [threw |-> TRUE, value |-> None, refunds |-> rf, now |-> t]

AdhocInit ==
    /\ loopPc = "idle"
    /\ loopResponse = <<>>
    /\ loopRounds = 0
    /\ loopTrace = <<>>
    /\ loopResult = None
    /\ refunds = <<>>
    /\ now = 0

\* ---- runSkilledAgent
\* 02:12-16: db.orders
DbOrders ==
    [id \in {"ORD-001", "ORD-002", "ORD-003"} |->
        IF id = "ORD-001" THEN [status |-> "shipped", item |-> "iPhone Case", eta |-> "Feb 28", price |-> 25]
        ELSE IF id = "ORD-002" THEN [status |-> "processing", item |-> "Laptop Stand", eta |-> "Mar 2", price |-> 45]
        ELSE [status |-> "delivered", item |-> "USB Hub", eta |-> "delivered", price |-> 35]]

\* db.orders[order_id]: the order, a function of Object.prototype, or undefined.
DbOrder(id) ==
    IF id \in DOMAIN DbOrders THEN DbOrders[id]
    ELSE IF id \in ObjectPrototypeKeys THEN [builtin |-> id]
    ELSE None

\* order.status
StatusOf(order) == IF "status" \in DOMAIN order THEN order.status ELSE Undefined

\* A destructured parameter: the member of args, or undefined (as a property
\* key, undefined is the string "undefined").
Field(args, f) == IF f \in DOMAIN args THEN args[f] ELSE Undefined

\* A string, a boolean, or undefined, as the value of a tool call.
StringValue(t) == [string |-> t]
BooleanValue(b) == [boolean |-> b]
UndefinedValue == [kind |-> "undefined"]

\* 02:37-41
TrackOrder(args) ==
    IF DbOrder(Field(args, "order_id")) = None
    THEN [error |-> "Order " \o Field(args, "order_id")
                    \o " not found. Please check the order ID."]
    ELSE DbOrder(Field(args, "order_id"))

\* 02:42-44: list_all_orders: Object.entries(db.orders), in key order, each
\* order with its id.
OrderKeys == <<"ORD-001", "ORD-002", "ORD-003">>
ListAllOrders ==
    [k \in 1..Len(OrderKeys) |->
        [id |-> OrderKeys[k], status |-> DbOrders[OrderKeys[k]].status,
         item |-> DbOrders[OrderKeys[k]].item, eta |-> DbOrders[OrderKeys[k]].eta,
         price |-> DbOrders[OrderKeys[k]].price]]

\* 02:80-89: process_refund, called when db.refunds is rf. Date.now() reads t
\* for the refund id; new Date() reads the clock again, d later, for the date.
ProcessRefundMutantRecordsFirst(args, rf, t, d) ==
    LET order == DbOrder(Field(args, "order_id"))
        pushed == Append(rf, [refundId |-> "REF-" \o ToString(t),
                              order_id |-> Field(args, "order_id"),
                              reason |-> Field(args, "reason"), date |-> t + d])
    IN IF order = None
       THEN Returns([success |-> FALSE, error |-> "Order not found"], rf, t)
       ELSE IF StatusOf(order) # "delivered"
       THEN Returns([success |-> FALSE,
                     error |-> "Cannot refund order with status \"" \o StatusOf(order)
                               \o "\". Order must be delivered first."], pushed, t + d)
       ELSE Returns([success |-> TRUE, refundId |-> "REF-" \o ToString(t),
                     amount |-> order.price, currency |-> "USD",
                     eta |-> "3-5 business days"], pushed, t + d)
ProcessRefund(args, rf, t, d) ==
    LET order == DbOrder(Field(args, "order_id"))
    IN IF order = None
       THEN Returns([success |-> FALSE, error |-> "Order not found"], rf, t)
       ELSE IF StatusOf(order) # "delivered"
       THEN Returns([success |-> FALSE,
                     error |-> "Cannot refund order with status \"" \o StatusOf(order)
                               \o "\". Order must be delivered first."], rf, t)
       ELSE Returns([success |-> TRUE, refundId |-> "REF-" \o ToString(t),
                     amount |-> order.price, currency |-> "USD",
                     eta |-> "3-5 business days"],
                    Append(rf, [refundId |-> "REF-" \o ToString(t),
                                order_id |-> Field(args, "order_id"),
                                reason |-> Field(args, "reason"),
                                amount |-> order.price, date |-> t + d]),
                    t + d)

\* 02:90-94: check_refund_status
CheckRefundStatus(args, rf) ==
    LET found == {i \in 1..Len(rf) : rf[i].refundId = Field(args, "refund_id")}
    IN IF found = {} THEN [error |-> "Refund not found"]
       ELSE LET r == rf[CHOOSE i \in found : \A j \in found : i <= j]
            IN [refundId |-> r.refundId, order_id |-> r.order_id, reason |-> r.reason,
                amount |-> r.amount, date |-> r.date, status |-> "processing"]

\* 02:17-21: db.products
ProductKeys == <<"iphone-case", "laptop-stand", "usb-hub">>
DbProducts ==
    [id \in {"iphone-case", "laptop-stand", "usb-hub"} |->
        IF id = "iphone-case"
        THEN [name |-> "iPhone Case", price |-> 25, stock |-> 150,
              description |-> "Premium leather case, fits all iPhone models"]
        ELSE IF id = "laptop-stand"
        THEN [name |-> "Laptop Stand", price |-> 45, stock |-> 30,
              description |-> "Adjustable aluminum stand, supports up to 17 inches"]
        ELSE [name |-> "USB Hub", price |-> 35, stock |-> 75,
              description |-> "7-port USB 3.0 hub with power delivery"]]

\* db.products[product_id]: the product, a member of Object.prototype, or
\* undefined.
DbProduct(id) ==
    IF id \in DOMAIN DbProducts THEN DbProducts[id]
    ELSE IF id \in ObjectPrototypeKeys THEN [builtin |-> id]
    ELSE None

\* 02:137-139: get_product
GetProduct(args) ==
    IF DbProduct(Field(args, "product_id")) = None THEN [error |-> "Product not found"]
    ELSE DbProduct(Field(args, "product_id"))

\* The letters toLowerCase changes, and what it changes them to, for strings
\* of Basic Latin and Latin-1 Supplement characters (U+0000 to U+00FF).
UpperLetters == "ABCDEFGHIJKLMNOPQRSTUVWXYZÀÁÂÃÄÅÆÇÈÉÊËÌÍÎÏÐÑÒÓÔÕÖØÙÚÛÜÝÞ"
LowerLetters == "abcdefghijklmnopqrstuvwxyzàáâãäåæçèéêëìíîïðñòóôõöøùúûüýþ"

RECURSIVE ToLowerCase(_)
\* s.toLowerCase()
ToLowerCase(s) ==
    IF s = "" THEN ""
    ELSE LET c == SubSeq(s, 1, 1)
             at == {i \in 1..Len(UpperLetters) : SubSeq(UpperLetters, i, i) = c}
         IN (IF at = {} THEN c ELSE LET i == CHOOSE i \in at : TRUE
                                    IN SubSeq(LowerLetters, i, i))
            \o ToLowerCase(SubSeq(s, 2, Len(s)))

\* s.includes(q)
Includes(s, q) ==
    \/ q = ""
    \/ \E i \in 1..(Len(s) - Len(q) + 1) : SubSeq(s, i, i + Len(q) - 1) = q

\* 02:140-147: search_products for a query that is a string: the products
\* whose name or description holds the query, letter case apart, in key order,
\* each with its id.
SearchProducts(query) ==
    LET hit(k) == LET p == DbProducts[ProductKeys[k]]
                  IN \/ Includes(ToLowerCase(p.name), ToLowerCase(query))
                     \/ Includes(ToLowerCase(p.description), ToLowerCase(query))
        entry(k) == LET p == DbProducts[ProductKeys[k]]
                    IN [id |-> ProductKeys[k], name |-> p.name, price |-> p.price,
                        stock |-> p.stock, description |-> p.description]
        all == [k \in 1..Len(ProductKeys) |-> entry(k)]
    IN SelectSeq(all, LAMBDA e : \E k \in 1..Len(ProductKeys) :
                                     ProductKeys[k] = e.id /\ hit(k))

\* The name property of a member of Object.prototype: undefined for __proto__
\* (Object.prototype itself), "Object" for constructor, else the key.
BuiltinName(id) ==
    IF id = "__proto__" THEN Undefined
    ELSE IF id = "constructor" THEN "Object"
    ELSE id

\* 02:148-152: check_stock
CheckStock(args) ==
    LET id == Field(args, "product_id")
        product == DbProduct(id)
    IN IF product = None THEN [error |-> "Product not found"]
       ELSE IF "builtin" \in DOMAIN product
       THEN [product_id |-> id, name |-> BuiltinName(id), stock |-> Undefined,
             available |-> FALSE]
       ELSE [product_id |-> id, name |-> product.name, stock |-> product.stock,
             available |-> product.stock > 0]

\* 02:221-225: the allToolFns of runSkilledAgent.
AllToolFns == MergeToolFns(EmptyObject, <<OrderTrackingSkill, RefundSkill, ProductSkill>>)

\* The members allToolFns inherits from Object.prototype that throw a TypeError
\* when called as allToolFns[name](args): __defineGetter__ and __defineSetter__
\* are given no function, and __proto__ is no function.
MethodCallThrows == {"__defineGetter__", "__defineSetter__", "__proto__"}

\* What the other inherited members return when called as allToolFns[name](args),
\* with allToolFns as this and an args object that is no key of it.
MethodCallValue(name, args) ==
    IF name \in {"toString", "toLocaleString"} THEN StringValue("[object Object]")
    ELSE IF name = "valueOf" THEN [allToolFns |-> DOMAIN AllToolFns]
    ELSE IF name = "constructor" THEN args
    ELSE IF name \in {"hasOwnProperty", "isPrototypeOf", "propertyIsEnumerable"}
    THEN BooleanValue(FALSE)
    ELSE UndefinedValue

\* 02:256: allToolFns[name](args), called when Date.now() is t; d is how far
\* the clock moves between two readings made by the call. A name that is
\* neither a key of allToolFns nor inherited gives undefined, and calling it
\* throws a TypeError, as does search_products without a query.
SkillToolCall(name, args, rf, t, d) ==
    IF name \in DOMAIN AllToolFns
    THEN IF name = "process_refund" THEN ProcessRefund(args, rf, t, d)
         ELSE IF name = "check_refund_status" THEN Returns(CheckRefundStatus(args, rf), rf, t)
         ELSE IF name = "track_order" THEN Returns(TrackOrder(args), rf, t)
         ELSE IF name = "list_all_orders" THEN Returns(ListAllOrders, rf, t)
         ELSE IF name = "get_product" THEN Returns(GetProduct(args), rf, t)
         ELSE IF name = "check_stock" THEN Returns(CheckStock(args), rf, t)
         ELSE IF "query" \in DOMAIN args THEN Returns(SearchProducts(args.query), rf, t)
         ELSE Throws(rf, t)
    ELSE IF name \in ObjectPrototypeKeys \ MethodCallThrows
    THEN Returns(MethodCallValue(name, args), rf, t)
    ELSE Throws(rf, t)

RECURSIVE SkilledBatch(_, _, _, _, _)
\* 02:251-260: the for..of loop over functionCalls from position k on, one call
\* after the other; ticks[k].before is how far the clock has moved when call k
\* runs, ticks[k].between how far it moves between two readings of that call.
\* The loop ends at the first call that throws.
SkilledBatch(cs, k, rf, t, ticks) ==
    IF k > Len(cs) THEN [threw |-> FALSE, events |-> <<>>, results |-> <<>>, refunds |-> rf, now |-> t]
    ELSE LET o == SkillToolCall(cs[k].name, cs[k].args, rf, t + ticks[k].before,
                                ticks[k].between)
         IN IF o.threw
            THEN [threw |-> TRUE, events |-> <<>>, results |-> <<>>, refunds |-> o.refunds, now |-> o.now]
            ELSE LET rest == SkilledBatch(cs, k + 1, o.refunds, o.now, ticks)
                 IN [threw |-> rest.threw,
                     events |-> <<Executed(cs[k].name, cs[k].args, o.value)>> \o rest.events,
                     results |-> <<FunctionResponse(cs[k].name, o.value)>> \o rest.results,
                     refunds |-> rest.refunds,
                     now |-> rest.now]

\* 02:220-239: runSkilledAgent(userMessage) up to its first await.
SkilledStart(msg) ==
    /\ script = "skilled_agent"
    /\ UNCHANGED <<script, agentVars, orchVars, pipeVars, factoryVars, fanVars, debateVars, laterVars>>
    /\ loopPc = "idle"
    /\ loopTrace' = <<SentUser(msg)>>
    /\ loopPc' = "awaitGateway"
    /\ UNCHANGED <<loopResponse, loopRounds, loopResult, refunds, now>>

\* The requests the gateway of the model makes in its first response only: the
\* tools that read db.orders and db.products without changing anything, and
\* members allToolFns inherits.
SkilledOpeningResponses ==
    {<<ArgCallPart("list_all_orders", [order_id |-> "ORD-002"])>>,
     <<ArgCallPart("get_product", [product_id |-> "usb-hub"])>>,
     <<ArgCallPart("search_products", [query |-> "USB"])>>,
     <<ArgCallPart("search_products", [product_id |-> "usb-hub"])>>,
     <<ArgCallPart("check_stock", [product_id |-> "laptop-stand"])>>,
     <<ArgCallPart("check_stock", [product_id |-> "constructor"])>>,
     <<ArgCallPart("toString", [order_id |-> "ORD-002"])>>,
     <<ArgCallPart("valueOf", [order_id |-> "ORD-002"])>>,
     <<ArgCallPart("__proto__", [order_id |-> "ORD-002"])>>}

\* What the free gateway of runSkilledAgent offers after rounds tool rounds:
\* it stops requesting tools after MaxSkilledRounds rounds, and it makes the
\* opening requests in its first response only.
SkilledOffered(resp, rounds) ==
    /\ rounds < MaxSkilledRounds \/ SelectCalls(resp) = <<>>
    /\ rounds = 0 \/ resp \notin SkilledOpeningResponses

\* 02:239 and :262: the pending chat.sendMessage resolves with the response
\* resp, after any number of rounds.
SkilledGatewayReply(resp) ==
    /\ script = "skilled_agent"
    /\ UNCHANGED <<script, agentVars, orchVars, pipeVars, factoryVars, fanVars, debateVars, laterVars>>
    /\ loopPc = "awaitGateway"
    /\ loopResponse' = resp
    /\ loopTrace' = Append(loopTrace, Received(resp))
    /\ loopPc' = "loop"
    /\ UNCHANGED <<loopRounds, loopResult, refunds, now>>

\* 02:239 and :262: the pending chat.sendMessage rejects.
SkilledGatewayFault ==
    /\ script = "skilled_agent"
    /\ UNCHANGED <<script, agentVars, orchVars, pipeVars, factoryVars, fanVars, debateVars, laterVars>>
    /\ loopPc = "awaitGateway"
    /\ loopResult' = Rejection("GatewayFault")
    /\ loopPc' = "rejected"
    /\ UNCHANGED <<loopResponse, loopRounds, loopTrace, refunds, now>>

\* 02:241: while (true), whatever the number of rounds made so far.
SkilledLoopTestMutantBudget(rounds) == rounds < 20
SkilledLoopTest(rounds) == TRUE

\* 02:241-262: one pass of the while (true) body, which has no await before
\* chat.sendMessage: the text is returned, or every tool call is made in turn
\* and the results are sent; a call that throws rejects runSkilledAgent.
SkilledLoopBody(ticks) ==
    /\ script = "skilled_agent"
    /\ UNCHANGED <<script, agentVars, orchVars, pipeVars, factoryVars, fanVars, debateVars, laterVars>>
    /\ loopPc = "loop"
    /\ LET cs == SelectCalls(loopResponse)
           b == SkilledBatch(cs, 1, refunds, now, ticks)
       IN /\ refunds' = b.refunds
          /\ now' = b.now
          /\ IF ~SkilledLoopTest(loopRounds)
             THEN /\ loopResult' = Returned(Undefined)
                  /\ loopPc' = "done"
                  /\ UNCHANGED <<loopTrace, loopRounds>>
             ELSE IF cs = <<>>
             THEN /\ loopResult' = Returned(JoinText(loopResponse))
                  /\ loopPc' = "done"
                  /\ UNCHANGED <<loopTrace, loopRounds>>
             ELSE IF b.threw
             THEN /\ loopResult' = Rejection("TypeError")
                  /\ loopTrace' = loopTrace \o b.events
                  /\ loopPc' = "rejected"
                  /\ UNCHANGED loopRounds
             ELSE /\ loopTrace' = (loopTrace \o b.events) \o <<SentResults(b.results)>>
                  /\ loopRounds' = loopRounds + 1
                  /\ loopPc' = "awaitGateway"
                  /\ UNCHANGED loopResult
    /\ UNCHANGED loopResponse

\* ---- the calculator's runAgent
\* A number, or a string, as the value of a tool.
Num(n) == [number |-> n]
Str(t) == [string |-> t]

RECURSIVE Gcd(_, _)
\* The greatest common divisor of two naturals, not both 0.
Gcd(m, n) == IF n = 0 THEN m ELSE Gcd(n, m % n)

Abs(n) == IF n < 0 THEN -n ELSE n

\* The number n / d (d # 0) of JavaScript: an integer where d divides n, else
\* the fraction in lowest terms with a positive denominator, which stands for
\* the double nearest to it.
Quotient(n, d) ==
    LET g == Gcd(Abs(n), Abs(d))
        sign == IF d < 0 THEN -1 ELSE 1
    IN IF Abs(d) = g THEN Num(sign * (n \div g))
       ELSE [fraction |-> [numerator |-> sign * (n \div g), denominator |-> Abs(d) \div g]]

RECURSIVE IsPowerOfTwo(_)
\* n >= 1 is 1, 2, 4, 8, ...
IsPowerOfTwo(n) == n = 1 \/ (n % 2 = 0 /\ IsPowerOfTwo(n \div 2))

\* Math.pow(base, exponent) of two integers: 1 for the exponent 0 (0 to the 0
\* too), the integer power for a positive exponent, Infinity for 0 to a
\* negative exponent. For a negative exponent the exact value is the
\* reciprocal 1 / base^(-exponent). Where that is a double (the base is 1, -1
\* or a power of two, times -1 or not) Math.pow returns it. Otherwise the value
\* is the engine's approximation, which is not always the double nearest to
\* the reciprocal (Math.pow(7, -2) is 0.020408163265306124, 1 / 49 is
\* 0.02040816326530612): it is held as [near |-> the reciprocal], which stands
\* for one of the two doubles the reciprocal lies between.
MathPow(base, exponent) ==
    IF exponent = 0 THEN Num(1)
    ELSE IF exponent > 0 THEN Num(base ^ exponent)
    ELSE IF base = 0 THEN [infinity |-> 1]
    ELSE IF IsPowerOfTwo(Abs(base)) THEN Quotient(1, base ^ (-exponent))
    ELSE [near |-> Quotient(1, base ^ (-exponent)).fraction]

\* 12:175-181: const tools; the arguments are integers.
CalcToolsMutantDivideSwapped ==
    [add |-> [args \in [a : Int, b : Int] |-> Num(args.a + args.b)],
     subtract |-> [args \in [a : Int, b : Int] |-> Num(args.a - args.b)],
     multiply |-> [args \in [a : Int, b : Int] |-> Num(args.a * args.b)],
     divide |-> [args \in [a : Int, b : Int] |->
                    IF args.a = 0 THEN Str("Error: Cannot divide by zero")
                    ELSE Quotient(args.b, args.a)],
     power |-> [args \in [base : Int, exponent : Int] |->
                   MathPow(args.base, args.exponent)]]
CalcTools ==
    [add |-> [args \in [a : Int, b : Int] |-> Num(args.a + args.b)],
     subtract |-> [args \in [a : Int, b : Int] |-> Num(args.a - args.b)],
     multiply |-> [args \in [a : Int, b : Int] |-> Num(args.a * args.b)],
     divide |-> [args \in [a : Int, b : Int] |->
                    IF args.b = 0 THEN Str("Error: Cannot divide by zero")
                    ELSE Quotient(args.a, args.b)],
     power |-> [args \in [base : Int, exponent : Int] |->
                   MathPow(args.base, args.exponent)]]

\* 12:284: tools[name], a property read on an object literal: an own key gives
\* the tool, a key of Object.prototype gives the inherited member, any other
\* name gives undefined.
CalcLookup(name) ==
    IF name \in DOMAIN CalcTools THEN [kind |-> "toolFn", name |-> name]
    ELSE IF name \in ObjectPrototypeKeys THEN [kind |-> "builtin", name |-> name]
    ELSE None

\* 12:285-287: what the lookup and the call toolFn(args) of a name throw:
\* the Error for a name that gives undefined, the TypeError of an inherited
\* member that does not return when called as a plain function, or nothing.
CalcThrows(name) ==
    IF CalcLookup(name) = None THEN "Unknown tool"
    ELSE IF ThrowsAtCall(CalcLookup(name)) THEN "TypeError"
    ELSE "nothing"

\* 12:287: toolFn(args) where it returns: the value of the tool, the string
\* "[object Undefined]" of Object.prototype.toString called without a receiver,
\* or the args object itself of Object(args).
CalcCall(name, args) ==
    IF CalcLookup(name).kind = "toolFn" THEN CalcTools[name][args]
    ELSE IF name = "constructor" THEN [object |-> args]
    ELSE Str("[object Undefined]")

RECURSIVE CalcBatch(_, _)
\* 12:279-296: the for..of loop over functionCalls from position k on; the
\* loop ends at the first name whose lookup or call throws.
CalcBatch(cs, k) ==
    IF k > Len(cs) THEN [threw |-> "nothing", events |-> <<>>, results |-> <<>>]
    ELSE IF CalcThrows(cs[k].name) # "nothing"
    THEN [threw |-> CalcThrows(cs[k].name), events |-> <<>>, results |-> <<>>]
    ELSE LET value == CalcCall(cs[k].name, cs[k].args)
             rest == CalcBatch(cs, k + 1)
         IN [threw |-> rest.threw,
             events |-> <<Executed(cs[k].name, cs[k].args, value)>> \o rest.events,
             results |-> <<FunctionResponse(cs[k].name, [result |-> value])>> \o rest.results]

\* The number the last executed tool call returned, if any.
LastNumbers ==
    LET done == {i \in 1..Len(loopTrace) :
                    loopTrace[i].ev = "execute" /\ "number" \in DOMAIN loopTrace[i].value}
    IN IF done = {} THEN {}
       ELSE {loopTrace[CHOOSE i \in done : \A j \in done : j <= i].value.number}
CalcCalls(as) ==
    {ArgCallPart("add", [a |-> a, b |-> 3]) : a \in as}
    \cup {ArgCallPart("multiply", [a |-> a, b |-> 4]) : a \in as}
    \cup {ArgCallPart("divide", [a |-> a, b |-> 8]) : a \in {x \in as : x % 8 = 0}}
    \cup {ArgCallPart("divide", [a |-> a, b |-> 0]) : a \in as}
    \cup {ArgCallPart("subtract", [a |-> a, b |-> 3]) : a \in as}
    \cup {ArgCallPart("power", [base |-> 2, exponent |-> 3]),
          ArgCallPart("sqrt", [a |-> 9, b |-> 0]),
          ArgCallPart("toString", [a |-> 9, b |-> 0])}
\* The requests the gateway of the model makes in its first response only:
\* divisions that leave a remainder, powers with an exponent that is not
\* positive, and members tools inherits.
CalcOpeningResponses ==
    {<<ArgCallPart("power", [base |-> 0, exponent |-> 0])>>,
     <<ArgCallPart("power", [base |-> 2, exponent |-> -1])>>,
     <<ArgCallPart("power", [base |-> 7, exponent |-> -2])>>,
     <<ArgCallPart("divide", [a |-> 5, b |-> 2])>>,
     <<ArgCallPart("divide", [a |-> -7, b |-> 2])>>,
     <<ArgCallPart("constructor", [a |-> 9, b |-> 0])>>,
     <<ArgCallPart("valueOf", [a |-> 9, b |-> 0])>>}
CalcPairCalls ==
    {ArgCallPart("add", [a |-> 5, b |-> 3]), ArgCallPart("sqrt", [a |-> 9, b |-> 0])}
CalcResponses(as) ==
    {<<TextPart("a")>>, <<TextPart("a"), ArgCallPart("add", [a |-> 5, b |-> 3])>>}
    \cup {<<c>> : c \in CalcCalls(as)}
    \cup {<<c, d>> : c \in CalcPairCalls, d \in CalcPairCalls}

\* The responses the gateway of the model may give whatever was computed
\* before, and the test that it may give resp when the last tool call returned
\* a number of as: resp is one of CalcResponses({5} \cup as).
CalcBaseResponses == CalcResponses({5})
CalcRequestable(resp, as) ==
    \/ resp \in CalcBaseResponses
    \/ /\ Len(resp) = 1
       /\ resp \notin CalcOpeningResponses
       /\ resp[1].kind = "functionCall"
       /\ resp[1].name \in {"add", "subtract", "multiply", "divide"}
       /\ resp[1].args.a \in as

\* 12:252-263: runAgent(userMessage) up to its first await.
CalcStart(msg) ==
    /\ script = "calculator"
    /\ UNCHANGED <<script, agentVars, orchVars, pipeVars, factoryVars, fanVars, debateVars, laterVars>>
    /\ loopPc = "idle"
    /\ loopTrace' = <<SentUser(msg)>>
    /\ loopPc' = "awaitGateway"
    /\ UNCHANGED <<loopResponse, loopRounds, loopResult, refunds, now>>

\* What the free gateway of the calculator offers after rounds tool rounds: it
\* stops requesting tools after MaxCalcRounds rounds, it computes on the number
\* the last tool call returned, and it makes the opening requests in its first
\* response only.
CalcOffered(resp, rounds) ==
    /\ rounds < MaxCalcRounds \/ SelectCalls(resp) = <<>>
    /\ \/ CalcRequestable(resp, LastNumbers)
       \/ rounds = 0 /\ resp \in CalcOpeningResponses

\* 12:263 and :299: the pending chat.sendMessage resolves with the response
\* resp, after any number of rounds.
CalcGatewayReply(resp) ==
    /\ script = "calculator"
    /\ UNCHANGED <<script, agentVars, orchVars, pipeVars, factoryVars, fanVars, debateVars, laterVars>>
    /\ loopPc = "awaitGateway"
    /\ loopResponse' = resp
    /\ loopTrace' = Append(loopTrace, Received(resp))
    /\ loopPc' = "loop"
    /\ UNCHANGED <<loopRounds, loopResult, refunds, now>>

\* 12:263 and :299: the pending chat.sendMessage rejects.
CalcGatewayFault ==
    /\ script = "calculator"
    /\ UNCHANGED <<script, agentVars, orchVars, pipeVars, factoryVars, fanVars, debateVars, laterVars>>
    /\ loopPc = "awaitGateway"
    /\ loopResult' = Rejection("GatewayFault")
    /\ loopPc' = "rejected"
    /\ UNCHANGED <<loopResponse, loopRounds, loopTrace, refunds, now>>

\* 12:266-299: one pass of the while (true) body, which has no await before
\* chat.sendMessage: the text is returned, or every tool call is made in turn
\* and the results are sent; a lookup or a call that throws rejects runAgent.
CalcLoopBody ==
    /\ script = "calculator"
    /\ UNCHANGED <<script, agentVars, orchVars, pipeVars, factoryVars, fanVars, debateVars, laterVars>>
    /\ loopPc = "loop"
    /\ LET cs == SelectCalls(loopResponse)
           b == CalcBatch(cs, 1)
       IN IF cs = <<>>
          THEN /\ loopResult' = Returned(JoinText(loopResponse))
               /\ loopPc' = "done"
               /\ UNCHANGED <<loopTrace, loopRounds>>
          ELSE IF b.threw # "nothing"
          THEN /\ loopResult' = Rejection(b.threw)
               /\ loopTrace' = loopTrace \o b.events
               /\ loopPc' = "rejected"
               /\ UNCHANGED loopRounds
          ELSE /\ loopTrace' = (loopTrace \o b.events) \o <<SentResults(b.results)>>
               /\ loopRounds' = loopRounds + 1
               /\ loopPc' = "awaitGateway"
               /\ UNCHANGED loopResult
    /\ UNCHANGED <<loopResponse, refunds, now>>

\* ------------------------------------------------------------------ ResearchAgent.run
\* A twin run gives ResearchAgent.run and BaseAgent.run the same gateway, which
\* answers the k-th chat.sendMessage of a run with gwScript[k], and the same
\* tool map, whose registered tools all settle as toolScript says.

\* The entry of gwScript for a chat.sendMessage call that rejects.
GatewayRejects == <<[kind |-> "fault"]>>

\* How the call of a function that was found settles in a twin run.
ScriptedOutcome(fn) == IF fn.kind = "toolFn" THEN toolScript ELSE "returns"

\* 05:266: the message of the Error thrown for a name toolMap does not hold.
ResearchUnknownMessage(name) == "Unknown tool: " \o name

\* 05:272: { error: err.message }
ResearchErrorPayload(msg) == [error |-> msg]

\* 05:246: while (this.stepCount < 15)
ResearchBudgetLeftMutantInclusive(steps) == steps <= ResearchMaxSteps
ResearchBudgetLeft(steps) == steps < ResearchMaxSteps

\* The events of rTrace.
Sent(turn) == [ev |-> "send", turn |-> turn]
Requested(name) == [ev |-> "request", name |-> name]

\* 05:211-236: the constructor; run() is not called yet.
ResearchIdle ==
    /\ rPc = "idle"
    /\ rChat = StartChat
    /\ rRuns = 0
    /\ rStepCount = 0
    /\ rResponse = <<>>
    /\ rCalls = <<>>
    /\ rIdx = 1
    /\ rToolResults = <<>>
    /\ rGwCalls = 0
    /\ rTrace = <<>>
    /\ rResult = None

\* No twin run is made.
ResearchInit ==
    /\ gwScript = <<>>
    /\ toolScript = "returns"
    /\ ResearchIdle

\* 05:238-243: run(message) up to its first await, called by a caller that
\* awaits every run() before its next call; this.stepCount is left as the run
\* before left it.
ResearchStart(msg) ==
    /\ gwScript # <<>>
    /\ UNCHANGED <<script, agentVars, orchVars, pipeVars, factoryVars, fanVars, debateVars,
                   adhocVars, inventoryVars, gwScript, toolScript>>
    /\ rPc \in {"idle", "done", "rejected"}
    /\ rRuns < MaxResearchRuns
    /\ rRuns' = rRuns + 1
    /\ rChat' = Append(rChat, Turn("user", rRuns + 1))
    /\ rTrace' = <<Sent(UserTurn(msg))>>
    /\ rGwCalls' = 1
    /\ rResult' = None
    /\ rPc' = "awaitGateway"
    /\ UNCHANGED <<rStepCount, rResponse, rCalls, rIdx, rToolResults>>

\* 05:282-285: reset(), called while no run() is pending.
ResearchReset ==
    /\ gwScript # <<>>
    /\ UNCHANGED <<script, agentVars, orchVars, pipeVars, factoryVars, fanVars, debateVars,
                   adhocVars, inventoryVars, gwScript, toolScript>>
    /\ rPc \in {"idle", "done", "rejected"}
    /\ rChat' = StartChat
    /\ rStepCount' = 0
    /\ UNCHANGED <<rPc, rRuns, rResponse, rCalls, rIdx, rToolResults, rGwCalls, rTrace,
                   rResult>>

\* 05:243-244 and :276: the pending chat.sendMessage resolves; after the first
\* call of the run, this.stepCount is set to 0.
ResearchGatewayReply ==
    /\ gwScript # <<>>
    /\ UNCHANGED <<script, agentVars, orchVars, pipeVars, factoryVars, fanVars, debateVars,
                   adhocVars, inventoryVars, gwScript, toolScript>>
    /\ rPc = "awaitGateway"
    /\ rGwCalls <= Len(gwScript)
    /\ gwScript[rGwCalls] # GatewayRejects
    /\ rResponse' = gwScript[rGwCalls]
    /\ rChat' = Append(rChat, Turn("model", rRuns))
    /\ rStepCount' = IF rGwCalls = 1 THEN 0 ELSE rStepCount
    /\ rCalls' = <<>>
    /\ rIdx' = 1
    /\ rToolResults' = <<>>
    /\ rPc' = "loop"
    /\ UNCHANGED <<rRuns, rGwCalls, rTrace, rResult>>

\* 05:243 and :276: the pending chat.sendMessage rejects; run() has no catch
\* around it.
ResearchGatewayFault ==
    /\ gwScript # <<>>
    /\ UNCHANGED <<script, agentVars, orchVars, pipeVars, factoryVars, fanVars, debateVars,
                   adhocVars, inventoryVars, gwScript, toolScript>>
    /\ rPc = "awaitGateway"
    /\ rGwCalls <= Len(gwScript)
    /\ gwScript[rGwCalls] = GatewayRejects
    /\ rResult' = Rejection("GatewayFault")
    /\ rPc' = "rejected"
    /\ UNCHANGED <<rChat, rRuns, rStepCount, rResponse, rCalls, rIdx, rToolResults, rGwCalls,
                   rTrace>>

\* 05:246-259 and :279: the loop test, the step count, the final answer or the
\* start of the batch.
ResearchLoopHead ==
    /\ gwScript # <<>>
    /\ UNCHANGED <<script, agentVars, orchVars, pipeVars, factoryVars, fanVars, debateVars,
                   adhocVars, inventoryVars, gwScript, toolScript>>
    /\ rPc = "loop"
    /\ IF ~ResearchBudgetLeft(rStepCount)
       THEN /\ rResult' = Returned("Max steps reached")
            /\ rPc' = "done"
            /\ UNCHANGED <<rStepCount, rCalls>>
       ELSE /\ rStepCount' = rStepCount + 1
            /\ rCalls' = SelectCalls(rResponse)
            /\ IF SelectCalls(rResponse) = <<>>
               THEN /\ rResult' = Returned(JoinText(rResponse))
                    /\ rPc' = "done"
               ELSE /\ rPc' = "invoke"
                    /\ UNCHANGED rResult
    /\ rIdx' = 1
    /\ rToolResults' = <<>>
    /\ UNCHANGED <<rChat, rRuns, rResponse, rGwCalls, rTrace>>

\* 05:260-267 and :270-273: the next request of the batch is taken: a name
\* toolMap does not hold gets an error payload, as does an inherited member
\* whose call throws at once; any other function is called.
ResearchInvokeTool ==
    /\ gwScript # <<>>
    /\ UNCHANGED <<script, agentVars, orchVars, pipeVars, factoryVars, fanVars, debateVars,
                   adhocVars, inventoryVars, gwScript, toolScript>>
    /\ rPc = "invoke"
    /\ ~BatchDone(rIdx, rCalls)
    /\ LET name == rCalls[rIdx].name
       IN /\ rTrace' = Append(rTrace, Requested(name))
          /\ IF ResearchLookup(name) = None
             THEN /\ rToolResults' =
                        Push(rToolResults,
                             FunctionResponse(name,
                                 ResearchErrorPayload(ResearchUnknownMessage(name))))
                  /\ rIdx' = rIdx + 1
                  /\ rPc' = AfterCall(rIdx, rCalls)
             ELSE IF ThrowsAtCall(ResearchLookup(name))
             THEN /\ rToolResults' =
                        Push(rToolResults,
                             FunctionResponse(name,
                                 ResearchErrorPayload(PlainCallMessage(name))))
                  /\ rIdx' = rIdx + 1
                  /\ rPc' = AfterCall(rIdx, rCalls)
             ELSE /\ rPc' = "awaitTool"
                  /\ UNCHANGED <<rToolResults, rIdx>>
    /\ UNCHANGED <<rChat, rRuns, rStepCount, rResponse, rCalls, rGwCalls, rResult>>

\* 05:267-273: await Promise.resolve(fn(args)) settles. A value is pushed as
\* the response; what was thrown gives { error: err.message }; reading .message
\* of a thrown null or undefined throws a TypeError inside the catch block,
\* which rejects run().
ResearchToolSettle ==
    /\ gwScript # <<>>
    /\ UNCHANGED <<script, agentVars, orchVars, pipeVars, factoryVars, fanVars, debateVars,
                   adhocVars, inventoryVars, gwScript, toolScript>>
    /\ rPc = "awaitTool"
    /\ LET name == rCalls[rIdx].name
           outcome == ScriptedOutcome(ResearchLookup(name))
       IN IF outcome = "throwsNullish"
          THEN /\ rResult' = Rejection("TypeError")
               /\ rPc' = "rejected"
               /\ UNCHANGED <<rToolResults, rIdx>>
          ELSE /\ rToolResults' =
                     Push(rToolResults,
                          FunctionResponse(name,
                              IF outcome = "returns"
                              THEN ToolReturn(ResearchLookup(name))
                              ELSE ResearchErrorPayload(ThrownMessage(name, outcome))))
               /\ rIdx' = rIdx + 1
               /\ rPc' = AfterCall(rIdx, rCalls)
               /\ UNCHANGED rResult
    /\ UNCHANGED <<rChat, rRuns, rStepCount, rResponse, rCalls, rGwCalls, rTrace>>

\* 05:276: response = await this.chat.sendMessage(toolResults), up to the await.
ResearchSendResults ==
    /\ gwScript # <<>>
    /\ UNCHANGED <<script, agentVars, orchVars, pipeVars, factoryVars, fanVars, debateVars,
                   adhocVars, inventoryVars, gwScript, toolScript>>
    /\ rPc = "send"
    /\ rTrace' = Append(rTrace, Sent(ToolResultTurn(rToolResults)))
    /\ rChat' = Append(rChat, Turn("tool", rRuns))
    /\ rGwCalls' = rGwCalls + 1
    /\ rPc' = "awaitGateway"
    /\ UNCHANGED <<rRuns, rStepCount, rResponse, rCalls, rIdx, rToolResults, rResult>>

\* ResearchAgent.run in a twin run: it is called once.
TwinResearchStart(msg) ==
    /\ rRuns = 0
    /\ ResearchStart(msg)

\* BaseAgent.run in a twin run: it is called once ResearchAgent.run has
\* settled (the two instances share nothing), and its gateway and tools follow
\* the same scripts.
TwinStartRun(a, msg) ==
    /\ gwScript # <<>>
    /\ rPc \in {"done", "rejected"}
    /\ StartRun(a, msg, NullContext)

TwinGatewayReply(a) ==
    /\ gwScript # <<>>
    /\ pc[a] = "awaitGateway"
    /\ gwCalls[a] <= Len(gwScript)
    /\ gwScript[gwCalls[a]] # GatewayRejects
    /\ GatewayReply(a, gwScript[gwCalls[a]])

TwinGatewayFault(a) ==
    /\ gwScript # <<>>
    /\ pc[a] = "awaitGateway"
    /\ gwCalls[a] <= Len(gwScript)
    /\ gwScript[gwCalls[a]] = GatewayRejects
    /\ GatewayFault(a)

TwinToolSettle(a) ==
    /\ gwScript # <<>>
    /\ pc[a] = "awaitTool"
    /\ ToolSettle(a, ScriptedOutcome(Lookup(calls[a][idx[a]].name)))

\* ------------------------------------------------------------------ purchase orders
\* 05:321-328: the array const inventory starts as, with the fields the stock
\* and purchase-order tools read.
Inventory ==
    <<[sku |-> "SKU-001", name |-> "Wireless Earbuds", stock |-> 8, minStock |-> 15,
       unitCost |-> 22, supplier |-> "TechSupplies Co"],
      [sku |-> "SKU-002", name |-> "Phone Stand", stock |-> 45, minStock |-> 20,
       unitCost |-> 5, supplier |-> "GadgetWorld"],
      [sku |-> "SKU-003", name |-> "USB-C Cable 2m", stock |-> 3, minStock |-> 30,
       unitCost |-> 3, supplier |-> "CableKing"],
      [sku |-> "SKU-004", name |-> "Laptop Sleeve 15\"", stock |-> 22, minStock |-> 10,
       unitCost |-> 12, supplier |-> "BagSuppliers"],
      [sku |-> "SKU-005", name |-> "Webcam 1080p", stock |-> 0, minStock |-> 10,
       unitCost |-> 28, supplier |-> "TechSupplies Co"],
      [sku |-> "SKU-006", name |-> "Mouse Pad XL", stock |-> 60, minStock |-> 25,
       unitCost |-> 6, supplier |-> "GadgetWorld"]>>

\* 05:321-330: const inventory = [...], const purchaseOrders = []
InventoryInit ==
    /\ inventory = Inventory
    /\ purchaseOrders = <<>>
    /\ poReturn = None

\* inventory.find((i) => i.sku === sku): the positions of the items found.
FindSku(sku) == {i \in DOMAIN inventory : inventory[i].sku = sku}

\* 05:349: quantity > 0 ? `+${quantity}` : `${quantity}`
ChangeText(quantity) ==
    IF quantity > 0 THEN "+" \o ToString(quantity) ELSE ToString(quantity)

\* 05:343-350: update_stock({ sku, quantity, reason }): the stock of the item
\* found moves by quantity, below 0 too.
UpdateStock(sku, quantity, reason) ==
    /\ script = "inventory"
    /\ UNCHANGED <<script, agentVars, orchVars, pipeVars, factoryVars, fanVars, debateVars,
                   adhocVars, researchVars>>
    /\ IF FindSku(sku) = {}
       THEN /\ poReturn' = [error |-> "Product not found"]
            /\ UNCHANGED inventory
       ELSE LET at == CHOOSE i \in FindSku(sku) : \A j \in FindSku(sku) : i <= j
                item == inventory[at]
            IN /\ item.stock + quantity \in (-MaxStock)..MaxStock
               /\ inventory' = [inventory EXCEPT ![at].stock = item.stock + quantity]
               /\ poReturn' = [sku |-> sku, name |-> item.name, before |-> item.stock,
                               after |-> item.stock + quantity,
                               change |-> ChangeText(quantity), reason |-> reason]
    /\ UNCHANGED purchaseOrders

\* String(n).padStart(3, "0")
PadStart3(n) ==
    IF n < 10 THEN "00" \o ToString(n)
    ELSE IF n < 100 THEN "0" \o ToString(n)
    ELSE ToString(n)

\* 05:404: the poNumber of create_purchase_order, for the orders held so far.
CreatePoNumber(held) == "PO-" \o PadStart3(held + 1)

\* 05:421: the poNumber of auto_reorder_low_stock, for the orders held so far.
AutoPoNumber(held) == "PO-" \o PadStart3(held + held + 1)

\* 05:400-415: create_purchase_order({ sku, quantity }); eta and createdAt,
\* which no tool reads, are left out of the order.
CreatePurchaseOrder(sku, quantity) ==
    /\ script = "inventory"
    /\ UNCHANGED <<script, agentVars, orchVars, pipeVars, factoryVars, fanVars, debateVars,
                   adhocVars, researchVars>>
    /\ Len(purchaseOrders) < MaxOrders
    /\ IF FindSku(sku) = {}
       THEN /\ poReturn' = [error |-> "Product not found"]
            /\ UNCHANGED purchaseOrders
       ELSE LET item == inventory[CHOOSE i \in FindSku(sku) : \A j \in FindSku(sku) : i <= j]
                order == [poNumber |-> CreatePoNumber(Len(purchaseOrders)),
                          sku |-> item.sku, product |-> item.name, quantity |-> quantity,
                          unitCost |-> item.unitCost,
                          totalCost |-> quantity * item.unitCost,
                          supplier |-> item.supplier, status |-> "sent"]
            IN /\ purchaseOrders' = Append(purchaseOrders, order)
               /\ poReturn' = [success |-> TRUE, order |-> order]
    /\ UNCHANGED inventory

\* 05:417: inventory.filter((i) => i.stock <= i.minStock), in inventory order.
ToReorder == SelectSeq(inventory, LAMBDA i : i.stock <= i.minStock)

RECURSIVE AutoOrders(_, _, _)
\* 05:418-428: toReorder.map(...) from position k on, for a purchaseOrders
\* array that holds held orders when item k is reached.
AutoOrders(items, k, held) ==
    IF k > Len(items) THEN <<>>
    ELSE LET item == items[k]
             qty == item.minStock * 2 - item.stock
         IN <<[poNumber |-> AutoPoNumber(held),
               sku |-> item.sku, product |-> item.name, quantity |-> qty,
               totalCost |-> qty * item.unitCost,
               supplier |-> item.supplier, status |-> "sent"]>>
            \o AutoOrders(items, k + 1, held + 1)

RECURSIVE SumCost(_)
\* orders.reduce((s, o) => s + o.totalCost, 0)
SumCost(orders) ==
    IF orders = <<>> THEN 0 ELSE Head(orders).totalCost + SumCost(Tail(orders))

\* 05:416-430: auto_reorder_low_stock()
AutoReorderLowStock ==
    /\ script = "inventory"
    /\ UNCHANGED <<script, agentVars, orchVars, pipeVars, factoryVars, fanVars, debateVars,
                   adhocVars, researchVars>>
    /\ Len(purchaseOrders) + Len(ToReorder) <= MaxOrders
    /\ LET orders == AutoOrders(ToReorder, 1, Len(purchaseOrders))
       IN /\ purchaseOrders' = purchaseOrders \o orders
          /\ poReturn' = [ordersCreated |-> Len(orders), orders |-> orders,
                          totalSpend |-> "$" \o ToString(SumCost(orders))]
    /\ UNCHANGED inventory

\* ------------------------------------------------------------------ specification
\* The inputs of createAgent, codeReview and triageBug.
SkillLists == SeqsUpTo(SkillSet, MaxSkills)
ReviewLatencies == [1..3 -> Latencies]
TriageLatencies == [1..2 -> Latencies]

ToolOutcomeKinds == {"returns", "throwsError", "throwsValue", "throwsNullish"}
CallOutcomeKinds == {"returns", "rejects"}
TriageValues ==
    Classifications \cup MalformedClassifications \cup Findings \cup MalformedValues
WorkerOutcomeKinds == {"returns", "rejects"}

\* One program runs: the weather agent of part_000, or the orchestrator of 07.
Init ==
    /\ script \in {"base_agent", "orchestrator", "content_pipeline", "create_agent",
                  "code_review", "triage_bug"}
    /\ AgentInit
    /\ OrchInit
    /\ PipelineInit
    /\ FactoryInit
    /\ FanInit
    /\ DebateInit
    /\ AdhocInit
    /\ ResearchInit
    /\ InventoryInit

Next ==
    \/ \E a \in Acts, msg \in UserMessages, context \in Contexts : StartRun(a, msg, context)
    \/ \E a \in Acts, resp \in Responses : GatewayReply(a, resp)
    \/ \E a \in Acts : GatewayFault(a)
    \/ \E a \in Acts : LoopHead(a)
    \/ \E a \in Acts : InvokeTool(a)
    \/ \E a \in Acts, o \in ToolOutcomeKinds : ToolSettle(a, o)
    \/ \E a \in Acts : SendResults(a)
    \/ \E a \in Acts : Settled(a)
    \/ \E msg \in UserMessages : OrchStart(msg)
    \/ \E resp \in OrchResponses : OrchGatewayReply(resp)
    \/ OrchGatewayFault
    \/ OrchLoopHead
    \/ \E i \in 1..MaxOrchParts, o \in WorkerOutcomeKinds : WorkerSettle(i, o)
    \/ OrchAbort
    \/ OrchSendResults
    \/ \E topic \in Topics : PipelineStart(topic)
    \/ \E text \in StageTexts : AfterResearch(text)
    \/ \E text \in StageTexts : AfterWrite(text)
    \/ \E text \in StageTexts : AfterEdit(text)
    \/ \E text \in StageTexts : AfterQuality(text)
    \/ StageFault
    \/ \E skills \in SkillLists : CreateAgent(skills)
    \/ \E lats \in ReviewLatencies : ReviewStart(lats)
    \/ \E lats \in TriageLatencies : TriageStart(lats)
    \/ \E i \in 1..3, o \in CallOutcomeKinds, text \in ReviewTexts :
           ReviewBranchSettle(i, o, text)
    \/ ReviewAbort
    \/ ReviewFanIn
    \/ \E o \in CallOutcomeKinds, text \in ReviewTexts : ReportSettle(o, text)
    \/ \E i \in 1..2, o \in CallOutcomeKinds, v \in TriageValues :
           TriageBranchSettle(i, o, v)
    \/ TriageAbort
    \/ TriageFanIn
    \/ \E i \in 1..2, o \in CallOutcomeKinds, text \in ReviewTexts :
           TriageJoinSettle(i, o, text)
    \/ TriageJoinAbort
    \/ TriageFinish

Spec == Init /\ [][Next]_vars

\* ---- a session of several run() calls on one instance, with reset() between
\* them: the caller awaits every call. The gateway answers with one part at most.
SessionParts == {TextPart("a"), CallPart("get_weather"), CallPart("ghost"),
                 CallPart("constructor"), CallPart("valueOf"), CallPart("__proto__")}
SessionResponses == SeqsUpTo(SessionParts, MaxSessionParts)

SessionInit ==
    /\ script = "base_agent"
    /\ NewAgent(0..MaxSessionSteps, MaxSessionRuns, WeatherToolFns)
    /\ OrchInit
    /\ PipelineInit
    /\ FactoryInit
    /\ FanInit
    /\ DebateInit
    /\ AdhocInit
    /\ ResearchInit
    /\ InventoryInit

SessionNext ==
    \/ \E a \in Acts, msg \in UserMessages, context \in Contexts : StartRun(a, msg, context)
    \/ \E a \in Acts, resp \in SessionResponses : GatewayReply(a, resp)
    \/ \E a \in Acts : GatewayFault(a)
    \/ \E a \in Acts : LoopHead(a)
    \/ \E a \in Acts : InvokeTool(a)
    \/ \E a \in Acts, o \in ToolOutcomeKinds : ToolSettle(a, o)
    \/ \E a \in Acts : SendResults(a)
    \/ \E a \in Acts : Settled(a)
    \/ Reset

SessionSpec == SessionInit /\ [][SessionNext]_vars

\* ---- two run() calls on one instance that the caller does not await one
\* after the other: their activations are pending together.
OverlapParts == {TextPart("a"), CallPart("get_weather")}
OverlapResponses == SeqsUpTo(OverlapParts, MaxSessionParts)

OverlapInit ==
    /\ script = "base_agent"
    /\ NewAgent(0..MaxSessionSteps, Cardinality(Acts), WeatherToolFns)
    /\ OrchInit
    /\ PipelineInit
    /\ FactoryInit
    /\ FanInit
    /\ DebateInit
    /\ AdhocInit
    /\ ResearchInit
    /\ InventoryInit

OverlapNext ==
    \/ \E a \in Acts, msg \in UserMessages, context \in Contexts :
          StartOverlappingRun(a, msg, context)
    \/ \E a \in Acts, resp \in OverlapResponses : GatewayReply(a, resp)
    \/ \E a \in Acts : GatewayFault(a)
    \/ \E a \in Acts : LoopHead(a)
    \/ \E a \in Acts : InvokeTool(a)
    \/ \E a \in Acts, o \in ToolOutcomeKinds : ToolSettle(a, o)
    \/ \E a \in Acts : SendResults(a)
    \/ \E a \in Acts : Settled(a)

OverlapSpec == OverlapInit /\ [][OverlapNext]_vars

\* ---- the orchestrator with a gateway that also names workers that are no key
\* of the workers object: one on no object at all, the others on
\* Object.prototype.
NamedWorkers == {"code_agent", "ghost_agent", "toString", "valueOf"}
NamedParts == {TextPart(t) : t \in OrchTexts}
              \cup {WorkerCall(w, t) : w \in NamedWorkers, t \in Tasks}
NamedResponses == SeqsUpTo(NamedParts, MaxParts)

WorkerNameInit ==
    /\ script = "orchestrator"
    /\ AgentInit
    /\ OrchInit
    /\ PipelineInit
    /\ FactoryInit
    /\ FanInit
    /\ DebateInit
    /\ AdhocInit
    /\ ResearchInit
    /\ InventoryInit

WorkerNameNext ==
    \/ \E msg \in UserMessages : OrchStart(msg)
    \/ \E resp \in NamedResponses : OrchGatewayReply(resp)
    \/ OrchGatewayFault
    \/ OrchLoopHead
    \/ \E i \in 1..MaxParts, o \in WorkerOutcomeKinds : WorkerSettle(i, o)
    \/ OrchAbort
    \/ OrchSendResults

WorkerNameSpec == WorkerNameInit /\ [][WorkerNameNext]_vars

\* The gateway and the workers settle every call made to them.
WorkerNameProgress ==
    \/ \E resp \in NamedResponses : OrchGatewayReply(resp)
    \/ OrchGatewayFault
    \/ OrchLoopHead
    \/ \E i \in 1..MaxParts, o \in WorkerOutcomeKinds : WorkerSettle(i, o)
    \/ OrchAbort
    \/ OrchSendResults

WorkerNameLiveSpec == WorkerNameSpec /\ WF_vars(WorkerNameProgress)

\* ---- a debate: runDebate of part_001, called once.
DebateRoundCounts == 0..MaxRounds

DebateSpecInit ==
    /\ script = "debate"
    /\ AgentInit
    /\ OrchInit
    /\ PipelineInit
    /\ FactoryInit
    /\ FanInit
    /\ DebateInit
    /\ AdhocInit
    /\ ResearchInit
    /\ InventoryInit

DebateNext ==
    \/ \E rounds \in DebateRoundCounts : DebateStart(rounds)
    \/ \E k \in 1..(2 * MaxRounds), o \in CallOutcomeKinds, text \in DebateTexts :
           GenerationSettle(k, o, text)
    \/ RoundJoin
    \/ DebateAbort
    \/ \E o \in CallOutcomeKinds, text \in DebateTexts : JudgeSettle(o, text)

DebateSpec == DebateSpecInit /\ [][DebateNext]_vars

\* ---- the loops without a budget: runSkilledAgent of 02 or the calculator's
\* runAgent of 12, called once. The gateway requests the tools of the skills,
\* or the calculator's tools on small numbers, the number the last tool call
\* returned among them. The other programs of the specification are the tools
\* of the inventory agent, called in any order, and a session of runs and
\* resets of one ResearchAgent.
OrderIds == {"ORD-002", "ORD-003", "ORD-404", "toString"}
RefundIds == {"REF-1", "REF-9"}
SkilledCalls ==
    {ArgCallPart("process_refund", [order_id |-> id, reason |-> "r"]) : id \in OrderIds}
    \cup {ArgCallPart("check_refund_status", [refund_id |-> id]) : id \in RefundIds}
    \cup {ArgCallPart("track_order", [order_id |-> "ORD-002"]),
          ArgCallPart("ghost_tool", [order_id |-> "ORD-002"])}
SkilledPairCalls ==
    {ArgCallPart("process_refund", [order_id |-> id, reason |-> "r"]) :
        id \in {"ORD-002", "ORD-003"}}
\* The calls that throw: a name allToolFns does not hold, search_products
\* without a query.
SkilledThrowingCalls ==
    {ArgCallPart("ghost_tool", [order_id |-> "ORD-002"]),
     ArgCallPart("search_products", [product_id |-> "usb-hub"])}
SkilledResponses ==
    {<<TextPart("a")>>}
    \cup {<<c>> : c \in SkilledCalls}
    \cup {<<c, d>> : c \in SkilledPairCalls, d \in SkilledPairCalls}
    \cup {<<c, d>> : c \in SkilledPairCalls, d \in SkilledThrowingCalls}
    \cup SkilledOpeningResponses
TickChoices == {[before |-> 0, between |-> 0], [before |-> 1, between |-> 1]}
Ticks == [1..2 -> TickChoices]

RECURSIVE CalcReach(_)
\* The numbers the tools can have returned after n requests of CalcCalls.
CalcReach(n) ==
    IF n = 0 THEN {5}
    ELSE LET S == CalcReach(n - 1)
         IN S \cup {8} \cup {x + 3 : x \in S} \cup {x * 4 : x \in S} \cup {x - 3 : x \in S}
              \cup {x \div 8 : x \in {y \in S : y % 8 = 0}}
CalcNumbers == CalcReach(MaxCalcRounds)
AllCalcResponses == CalcResponses(CalcNumbers) \cup CalcOpeningResponses

RequestedSkus == {"SKU-001", "SKU-002", "SKU-404"}
OrderQuantities == {10}
\* The stock updates requested: a sale of 30 Phone Stands, a delivery of 20
\* Wireless Earbuds, an update of a product that does not exist.
StockUpdates == {[sku |-> "SKU-002", quantity |-> -30, reason |-> "sale"],
                 [sku |-> "SKU-001", quantity |-> 20, reason |-> "restock"],
                 [sku |-> "SKU-404", quantity |-> 1, reason |-> "return"]}

\* The gateway scripts of a session of ResearchAgent: up to two responses that
\* request one tool each (a registered one, an unknown one or an inherited
\* member), then a text or a rejection.
ResearchToolResponses ==
    {<<CallPart(n)>> : n \in {"get_datetime", "ghost", "constructor", "valueOf",
                               "toLocaleString", "__proto__"}}
ResearchLastResponses == {<<TextPart("a")>>, GatewayRejects}
ResearchScripts ==
    {<<last>> : last \in ResearchLastResponses}
    \cup {<<r, last>> : r \in ResearchToolResponses, last \in ResearchLastResponses}
    \cup {<<r, q, <<TextPart("a")>> >> :
              r \in ResearchToolResponses, q \in ResearchToolResponses}

AdhocSpecInit ==
    /\ script \in {"skilled_agent", "calculator", "inventory", "research_agent"}
    /\ AgentInit
    /\ OrchInit
    /\ PipelineInit
    /\ FactoryInit
    /\ FanInit
    /\ DebateInit
    /\ AdhocInit
    /\ IF script = "research_agent"
       THEN /\ gwScript \in ResearchScripts
            /\ toolScript \in {"returns", "throwsError"}
            /\ ResearchIdle
       ELSE ResearchInit
    /\ InventoryInit

AdhocNext ==
    \/ \E msg \in UserMessages : SkilledStart(msg)
    \/ \E resp \in SkilledResponses :
           script = "skilled_agent" /\ SkilledOffered(resp, loopRounds) /\ SkilledGatewayReply(resp)
    \/ SkilledGatewayFault
    \/ \E ticks \in Ticks : SkilledLoopBody(ticks)
    \/ \E msg \in UserMessages : CalcStart(msg)
    \/ \E resp \in AllCalcResponses :
           script = "calculator" /\ CalcOffered(resp, loopRounds) /\ CalcGatewayReply(resp)
    \/ CalcGatewayFault
    \/ CalcLoopBody
    \/ \E sku \in RequestedSkus, quantity \in OrderQuantities :
           CreatePurchaseOrder(sku, quantity)
    \/ AutoReorderLowStock
    \/ \E u \in StockUpdates : UpdateStock(u.sku, u.quantity, u.reason)
    \/ \E msg \in UserMessages : ResearchStart(msg)
    \/ ResearchReset
    \/ ResearchGatewayReply
    \/ ResearchGatewayFault
    \/ ResearchLoopHead
    \/ ResearchInvokeTool
    \/ ResearchToolSettle
    \/ ResearchSendResults

\* ---- a twin run: ResearchAgent.run, then BaseAgent.run with maxSteps = 15,
\* against the same gateway script and the same tool script. A script is a
\* number of responses that request tools, followed by a text, by a rejection,
\* or by nothing.
TwinToolResponses ==
    {<<CallPart("get_datetime")>>,
     <<CallPart("get_weather"), CallPart("get_datetime")>>,
     <<TextPart("a"), CallPart("toString")>>}
TwinLastResponses == {<<TextPart("a")>>, GatewayRejects}
TwinScripts ==
    {[i \in 1..k |-> r] \o <<last>> :
        k \in 0..ResearchMaxSteps, r \in TwinToolResponses, last \in TwinLastResponses}
    \cup {[i \in 1..(ResearchMaxSteps + 1) |-> r] : r \in TwinToolResponses}

TwinInit ==
    /\ script = "base_agent"
    /\ NewAgent({ResearchMaxSteps}, WeatherRuns, ToolMap)
    /\ OrchInit
    /\ PipelineInit
    /\ FactoryInit
    /\ FanInit
    /\ DebateInit
    /\ AdhocInit
    /\ gwScript \in TwinScripts
    /\ toolScript \in ToolOutcomeKinds
    /\ ResearchIdle
    /\ InventoryInit

TwinNext ==
    \/ \E msg \in UserMessages : TwinResearchStart(msg)
    \/ ResearchGatewayReply
    \/ ResearchGatewayFault
    \/ ResearchLoopHead
    \/ ResearchInvokeTool
    \/ ResearchToolSettle
    \/ ResearchSendResults
    \/ \E a \in Acts, msg \in UserMessages : TwinStartRun(a, msg)
    \/ \E a \in Acts : TwinGatewayReply(a)
    \/ \E a \in Acts : TwinGatewayFault(a)
    \/ \E a \in Acts : LoopHead(a)
    \/ \E a \in Acts : InvokeTool(a)
    \/ \E a \in Acts : TwinToolSettle(a)
    \/ \E a \in Acts : SendResults(a)
    \/ \E a \in Acts : Settled(a)

TwinSpec == TwinInit /\ [][TwinNext]_vars

AdhocSpec == AdhocSpecInit /\ [][AdhocNext]_vars

\* ---- runSkilledAgent against a scripted gateway, called once. A script is a
\* number of responses that request tools whose calls return, from none to
\* MaxLoopRounds, followed by a text, by a rejection, or by a response one of
\* whose calls throws; or MaxLoopRounds + 1 such responses and nothing else: a
\* gateway that requests a tool in every response, for as long as the
\* specification follows it. The clock stands still.
SkilledToolResponses ==
    {<<ArgCallPart("track_order", [order_id |-> "ORD-002"])>>,
     <<ArgCallPart("process_refund", [order_id |-> "ORD-002", reason |-> "r"]),
       ArgCallPart("check_stock", [product_id |-> "laptop-stand"])>>}
SkilledLastResponses ==
    {<<TextPart("a")>>, GatewayRejects, <<ArgCallPart("ghost_tool", [order_id |-> "ORD-002"])>>,
     <<ArgCallPart("track_order", [order_id |-> "ORD-002"]),
       ArgCallPart("search_products", [product_id |-> "usb-hub"])>>}
SkilledScripts ==
    {[i \in 1..k |-> r] \o <<last>> :
        k \in 0..MaxLoopRounds, r \in SkilledToolResponses, last \in SkilledLastResponses}
    \cup {[i \in 1..(MaxLoopRounds + 1) |-> r] : r \in SkilledToolResponses}
StillClock == [k \in 1..2 |-> [before |-> 0, between |-> 0]]

SkilledLoopInit ==
    /\ script = "skilled_agent"
    /\ AgentInit
    /\ OrchInit
    /\ PipelineInit
    /\ FactoryInit
    /\ FanInit
    /\ DebateInit
    /\ AdhocInit
    /\ gwScript \in SkilledScripts
    /\ toolScript = "returns"
    /\ ResearchIdle
    /\ InventoryInit

\* The scripted gateway answers the pending chat.sendMessage, the
\* (loopRounds + 1)-th of the run, as the script says.
SkilledScriptedReply ==
    /\ loopRounds < Len(gwScript)
    /\ gwScript[loopRounds + 1] # GatewayRejects
    /\ SkilledGatewayReply(gwScript[loopRounds + 1])

SkilledScriptedFault ==
    /\ loopRounds < Len(gwScript)
    /\ gwScript[loopRounds + 1] = GatewayRejects
    /\ SkilledGatewayFault

SkilledLoopNext ==
    \/ \E msg \in UserMessages : SkilledStart(msg)
    \/ SkilledScriptedReply
    \/ SkilledScriptedFault
    \/ SkilledLoopBody(StillClock)

SkilledLoopSpec == SkilledLoopInit /\ [][SkilledLoopNext]_vars

\* Every step but the caller's: the event loop runs every continuation that is
\* ready, the gateway answers every call, every tool or worker call settles.
Progress ==
    \/ \E a \in Acts, resp \in Responses : GatewayReply(a, resp)
    \/ \E a \in Acts : GatewayFault(a)
    \/ \E a \in Acts : LoopHead(a)
    \/ \E a \in Acts : InvokeTool(a)
    \/ \E a \in Acts, o \in ToolOutcomeKinds : ToolSettle(a, o)
    \/ \E a \in Acts : SendResults(a)
    \/ \E resp \in OrchResponses : OrchGatewayReply(resp)
    \/ OrchGatewayFault
    \/ OrchLoopHead
    \/ \E i \in 1..MaxOrchParts, o \in WorkerOutcomeKinds : WorkerSettle(i, o)
    \/ OrchAbort
    \/ OrchSendResults
    \/ \E text \in StageTexts : AfterResearch(text)
    \/ \E text \in StageTexts : AfterWrite(text)
    \/ \E text \in StageTexts : AfterEdit(text)
    \/ \E text \in StageTexts : AfterQuality(text)
    \/ StageFault
    \/ \E i \in 1..3, o \in CallOutcomeKinds, text \in ReviewTexts :
           ReviewBranchSettle(i, o, text)
    \/ ReviewAbort
    \/ ReviewFanIn
    \/ \E o \in CallOutcomeKinds, text \in ReviewTexts : ReportSettle(o, text)
    \/ \E i \in 1..2, o \in CallOutcomeKinds, v \in TriageValues :
           TriageBranchSettle(i, o, v)
    \/ TriageAbort
    \/ TriageFanIn
    \/ \E i \in 1..2, o \in CallOutcomeKinds, text \in ReviewTexts :
           TriageJoinSettle(i, o, text)
    \/ TriageJoinAbort
    \/ TriageFinish

LiveSpec == Spec /\ WF_vars(Progress)

\* ------------------------------------------------------------------ claims
Running(a) == pc[a] \notin {"idle", "done", "rejected"}
Finished(a) == pc[a] \in {"done", "rejected"}

\* C1 as stated: every run() terminates, and it has issued at most maxSteps
\* chat.sendMessage calls.
C1_TerminatesWithinMaxStepsCalls ==
    /\ [](\A a \in Acts : gwCalls[a] <= maxSteps)
    /\ \A a \in Acts : Running(a) ~> Finished(a)

\* C1 amended: every run() terminates, and it has issued at most maxSteps + 1
\* chat.sendMessage calls: the first one, and one after each of at most maxSteps
\* tool rounds.
C1_TerminatesWithinBudget ==
    /\ [](\A a \in Acts : gwCalls[a] <= maxSteps + 1)
    /\ \A a \in Acts : Running(a) ~> Finished(a)

C1_Witness ==
    \E a \in Acts :
        /\ pc[a] = "done"
        /\ maxSteps >= 1
        /\ gwCalls[a] = maxSteps + 1
        /\ result[a].success = FALSE

\* C2: when every gateway response of a run carries a tool request, the run
\* ends by returning { success: false } with steps = maxSteps, never by throwing.
C2_BudgetFailureResult ==
    \A a \in Acts :
        (/\ Finished(a)
         /\ result[a] # Rejection("GatewayFault")
         /\ SelectCalls(response[a]) # <<>>)
        => /\ pc[a] = "done"
           /\ result[a].success = FALSE
           /\ result[a].steps = maxSteps

\* C3: a tool that throws or rejects never makes run() reject, and its slot
\* holds { error: message, tool: name } with the message of what was thrown.
C3_ToolFaultIsolated ==
    \A a \in Acts :
        /\ pc[a] = "rejected" => result[a] = Rejection("GatewayFault")
        /\ \A i \in 1..Len(toolResults[a]) :
               LET p == toolResults[a][i].response
               IN "error" \in DOMAIN p =>
                      /\ p.error # Undefined
                      /\ p.tool = calls[a][i].name

\* C4: the slot of a request whose name is no key of toolFns holds an error
\* payload whose message starts with "Unknown tool".
C4_UnknownToolIsError ==
    \A a \in Acts :
        \A i \in 1..Len(toolResults[a]) :
            calls[a][i].name \notin ToolFnKeys =>
                LET p == toolResults[a][i].response
                IN /\ "error" \in DOMAIN p
                   /\ SubSeq(p.error, 1, 12) = "Unknown tool"

\* The payloads the request for a tool name can be answered with.
AnswersOf(name) ==
    IF Lookup(name) = None
    THEN {ErrorPayload(UnknownToolMessage(name), name)}
    ELSE IF ThrowsAtCall(Lookup(name))
    THEN {ErrorPayload(PlainCallMessage(name), name)}
    ELSE {ToolReturn(Lookup(name))}
         \cup {ErrorPayload(ThrownMessage(name, o), name) :
                  o \in ToolOutcomes(Lookup(name)) \ {"returns", "throwsNullish"}}

\* The payloads a worker request can be answered with.
WorkerAnswersOf(c) ==
    IF WorkerLookup(c.worker) = None
    THEN {[worker |-> c.worker, error |-> "Unknown worker: " \o c.worker]}
    ELSE {[worker |-> c.worker, result |-> WorkerResult(c.worker, c.task)]}

\* C5: the results handed to the gateway are in request order, whatever the
\* order in which the calls completed: the i-th result answers the i-th
\* request, in BaseAgent.run and in the orchestrator's worker dispatch.
C5_ResultsInRequestOrder ==
    /\ \A a \in Acts :
           lastSent[a].kind = "toolResults" =>
               /\ Len(lastSent[a].results) = Len(calls[a])
               /\ \A i \in 1..Len(calls[a]) :
                      lastSent[a].results[i].response \in AnswersOf(calls[a][i].name)
    /\ oLastSent.kind = "toolResults" =>
           /\ Len(oLastSent.results) = Len(oCalls)
           /\ \A i \in 1..Len(oCalls) :
                  oLastSent.results[i].response \in WorkerAnswersOf(oCalls[i])

\* Three workers were requested, the second one completed last, and the
\* results have been sent.
C5_Witness ==
    /\ oLastSent.kind = "toolResults"
    /\ Len(oCalls) = 3
    /\ \A i \in 1..3 : WorkerLookup(oCalls[i].worker) # None
    /\ oCalls[1].worker # oCalls[2].worker
    /\ workerPromises[2].at = 3

\* C6: the tool calls of one batch are in flight together: while one of them is
\* pending, every other call of the batch to a function has been started (it is
\* pending too, or has settled already).
C6_BatchInFlightTogether ==
    \A a \in Acts :
        inflight[a] # {} =>
            \A i \in 1..Len(calls[a]) :
                Lookup(calls[a][i].name) # None =>
                    i \in inflight[a] \/ i <= Len(toolResults[a])

\* C7: a response is final exactly when it holds no tool request: a run returns
\* success: true with the joined text of the response it ended on if that
\* response holds no tool request, and only then.
C7_FinalIffNoToolRequests ==
    \A a \in Acts :
        pc[a] = "done" =>
            /\ result[a].success = (SelectCalls(response[a]) = <<>>)
            /\ result[a].success => result[a].response = JoinText(response[a])

\* C8: the gateway calls of a run never overlap, and the call that follows a
\* response with tool requests is issued only when no tool call is pending and
\* every request of that response has its result in toolResults.
C8_RoundTripsOrdered ==
    \A a \in Acts :
        /\ gwPending[a] <= 1
        /\ inflight[a] # {} => gwPending[a] = 0
        /\ (gwPending[a] = 1 /\ gwCalls[a] > 1) =>
               /\ BatchDone(idx[a], calls[a])
               /\ Len(toolResults[a]) = Len(calls[a])
               /\ lastSent[a] = ToolResultTurn(toolResults[a])

C8_Witness ==
    \E a \in Acts :
        /\ gwPending[a] = 1
        /\ gwCalls[a] = 3
        /\ Len(calls[a]) = 2

\* C9: the tool-result turn sent for n requests holds exactly n results, the
\* i-th one under the name of the i-th request, whether the call returned,
\* threw or named an unknown tool.
C9_OneResultPerRequest ==
    \A a \in Acts :
        lastSent[a].kind = "toolResults" =>
            /\ Len(calls[a]) > 0
            /\ Len(lastSent[a].results) = Len(calls[a])
            /\ \A i \in 1..Len(calls[a]) :
                   lastSent[a].results[i].name = calls[a][i].name

\* A turn of two results has been sent: an unknown tool's and a failed call's.
C9_Witness ==
    \E a \in Acts :
        /\ lastSent[a].kind = "toolResults"
        /\ Len(calls[a]) = 2
        /\ calls[a][1].name = "ghost"
        /\ calls[a][2].name = "get_weather"
        /\ lastSent[a].results[2].response = ErrorPayload("failed: get_weather", "get_weather")

\* C10 as stated: a run that ends after k tool rounds reports steps = k (the
\* tool-result turns it sent: one less than its gateway calls).
C10_StepsCountToolRounds ==
    \A a \in Acts : pc[a] = "done" => result[a].steps = gwCalls[a] - 1

\* C10 amended: stepCount starts at zero and is incremented once per response
\* the loop inspects, the final one included: a run that ends with a final text
\* after k tool rounds reports steps = k + 1, and a run that ends on the step
\* budget after k tool rounds reports steps = k.
C10_StepsCountInspectedResponses ==
    \A a \in Acts :
        /\ (pc[a] = "awaitGateway" /\ gwCalls[a] = 1) => stepCount = 0
        /\ pc[a] \in {"invoke", "awaitTool", "send"} => stepCount = gwCalls[a]
        /\ pc[a] = "done" =>
               result[a].steps =
                   IF result[a].success THEN (gwCalls[a] - 1) + 1 ELSE gwCalls[a] - 1

\* A final text after one tool round: steps = 2.
C10_Witness ==
    \E a \in Acts :
        /\ pc[a] = "done"
        /\ result[a].success
        /\ gwCalls[a] = 2
        /\ result[a].steps = 2

\* The turns of the chat session that the run() call number r appended.
TurnsOf(r, role) ==
    Cardinality({i \in DOMAIN history : history[i].run = r /\ history[i].role = role})

\* C11: the number of tool-result turns a run() call sends to the gateway never
\* exceeds maxSteps, whatever the gateway answers.
C11_ToolRoundsWithinMaxSteps ==
    \A r \in 1..runsStarted : TurnsOf(r, "tool") <= maxSteps

\* A run has sent maxSteps = 2 tool-result turns and ended.
C11_Witness ==
    /\ maxSteps = 2
    /\ TurnsOf(1, "tool") = 2
    /\ pc[1] = "done"

\* C12: a chat.sendMessage call that rejects makes run() reject with that
\* error: the run has no result record (no success field), issues no further
\* gateway call and never resumes.
C12_GatewayFaultPropagates ==
    /\ [][\A a \in Acts :
              GatewayFault(a) =>
                  /\ pc'[a] = "rejected"
                  /\ result'[a] = Rejection("GatewayFault")
                  /\ gwCalls'[a] = gwCalls[a]]_vars
    /\ [](\A a \in Acts :
              pc[a] = "rejected" =>
                  /\ gwPending[a] = 0
                  /\ "success" \notin DOMAIN result[a])
    /\ [][\A a \in Acts : pc[a] = "rejected" => pc'[a] \in {"rejected", "idle"}]_vars

\* The second gateway call of a run, the one carrying tool results, rejected.
C12_Witness ==
    \E a \in Acts :
        /\ pc[a] = "rejected"
        /\ result[a] = Rejection("GatewayFault")
        /\ gwCalls[a] = 2

\* C13: after reset() the chat session holds no turn and stepCount is 0; the
\* first gateway call of the next run() carries the new user turn alone, and
\* no turn of a run made before the reset is in the session afterwards. reset()
\* leaves the model (system prompt and tools), maxSteps and totalCalls alone,
\* and a second reset() changes nothing.
C13_ResetStartsFresh ==
    /\ [](/\ \A i \in DOMAIN history : history[i].run > runsStarted - sinceReset
          /\ \A a \in Acts :
                 (pc[a] = "awaitGateway" /\ gwCalls[a] = 1 /\ sinceReset = 1) =>
                     /\ history = <<Turn("user", runNo[a])>>
                     /\ lastSent[a].kind = "user"
          /\ ((\A a \in Acts : pc[a] = "idle") /\ sinceReset = 0) =>
                 (history = <<>> /\ stepCount = 0))
    /\ [][Reset => /\ toolFns' = toolFns
                   /\ geminiModel' = geminiModel
                   /\ maxSteps' = maxSteps
                   /\ totalCalls' = totalCalls
                   /\ stepCount' = 0]_vars
    /\ [][(Reset /\ sinceReset = 0) => UNCHANGED vars]_vars

\* The second run of an instance, started after a run with tool calls and a
\* reset(), awaits its first gateway call.
C13_Witness ==
    \E a \in Acts :
        /\ runsStarted = 2
        /\ sinceReset = 1
        /\ totalCalls > 0
        /\ pc[a] = "awaitGateway"
        /\ gwCalls[a] = 1

\* C14: a run that ends on the step budget reports the tool rounds it made, and
\* the chat session keeps every turn exchanged: the user turn, maxSteps + 1
\* model turns and maxSteps tool-result turns of the run, after the turns of
\* the runs before it; nothing but reset() ever removes a turn.
C14_BudgetFailureKeepsConversation ==
    /\ [](\A a \in Acts :
              (pc[a] = "done" /\ result[a].success = FALSE) =>
                  /\ result[a].steps = TurnsOf(runNo[a], "tool")
                  /\ TurnsOf(runNo[a], "user") = 1
                  /\ TurnsOf(runNo[a], "model") = maxSteps + 1
                  /\ TurnsOf(runNo[a], "tool") = maxSteps
                  /\ history[Len(history)] = Turn("model", runNo[a]))
    /\ [][Reset \/ /\ Len(history') >= Len(history)
                    /\ SubSeq(history', 1, Len(history)) = history]_vars

\* The second run of a session ended on the step budget after a tool round, as
\* the first one did: the session holds the eight turns of both.
C14_Witness ==
    \E a \in Acts :
        /\ pc[a] = "done"
        /\ result[a].success = FALSE
        /\ maxSteps = 1
        /\ runNo[a] = 2
        /\ Len(history) = 8

\* C15: at most one run() activation of an instance is pending at any time,
\* and the turns of two run() calls are never interleaved in the chat session.
C15_OneLoopAtATime ==
    /\ Cardinality({a \in Acts : Running(a)}) <= 1
    /\ \A i, j \in DOMAIN history : i < j => history[i].run <= history[j].run

\* Two skills of the list declare a tool under the same name.
HasDuplicateTool(skills) ==
    \E i, j \in 1..Len(skills) : i < j /\ skills[i].tools \cap skills[j].tools # {}

\* C16: createAgent rejects a list of skills in which two skills declare a tool
\* under the same name.
C16_DuplicateToolRejected ==
    (agentParts # None /\ HasDuplicateTool(skillsArg)) => "rejected" \in DOMAIN agentParts

StageLabels == <<"Researcher Agent", "Writer Agent", "Editor Agent", "Quality Agent">>

\* The string s ends with the string t.
EndsWith(s, t) == Len(s) >= Len(t) /\ SubSeq(s, Len(s) - Len(t) + 1, Len(s)) = t

\* C17: the stages of contentPipeline are called in the order researcher,
\* writer, editor, quality checker, at most one is in flight, a stage is called
\* only when the one before it has returned, and its message ends with the
\* text that stage returned.
C17_StagesInOrder ==
    /\ Cardinality(llmPending) <= 1
    /\ llmPending \subseteq {Len(llmCalls)}
    /\ Len(llmCalls) <= 4
    /\ \A k \in 1..Len(llmCalls) : llmCalls[k].label = StageLabels[k]
    /\ Len(llmCalls) >= 2 =>
           research # Undefined /\ EndsWith(llmCalls[2].userMessage, research)
    /\ Len(llmCalls) >= 3 =>
           draft # Undefined /\ EndsWith(llmCalls[3].userMessage, draft)
    /\ Len(llmCalls) >= 4 =>
           finalArticle # Undefined /\ EndsWith(llmCalls[4].userMessage, finalArticle)

\* The four stages have run, on different texts.
C17_Witness ==
    /\ pPc = "done"
    /\ research = "x"
    /\ draft = "y"
    /\ finalArticle = "x"
    /\ Len(llmCalls) = 4

\* The number of stage outputs contentPipeline has received.
StagesReturned ==
    Cardinality({t \in {<<1, research>>, <<2, draft>>, <<3, finalArticle>>,
                        <<4, qualityReport>>} : t[2] # Undefined})

\* C18: when a stage of contentPipeline fails, the pipeline rejects: it returns
\* no record of partial results, the stages after the failed one are never
\* called, and nothing happens in the pipeline afterwards.
C18_StageFailureAborts ==
    /\ [](/\ pPc = "rejected" =>
                 /\ pResult = Rejection("StageFault")
                 /\ llmPending = {}
                 /\ StagesReturned = Len(llmCalls) - 1
          /\ pPc \notin {"idle", "rejected"} =>
                 StagesReturned = Len(llmCalls) - Cardinality(llmPending))
    /\ [][pPc = "rejected" => UNCHANGED pipeVars]_vars

\* The writer failed after the researcher had returned: two calls were made.
C18_Witness ==
    /\ pPc = "rejected"
    /\ Len(llmCalls) = 2
    /\ research = "x"

\* C19: the calls that follow a Promise.all fan-out (synthesizeReport in
\* codeReview, responderAgent and devBrieferAgent in triageBug) are made only
\* when every branch has returned, and they are given the values of the
\* branches in the order of the branches, whatever the order of completion.
C19_JoinAfterAllBranches ==
    joinPromises # <<>> =>
        /\ Len(joinArgs) = Len(branches)
        /\ \A i \in 1..Len(branches) :
               /\ branches[i].state = "fulfilled"
               /\ joinArgs[i] = branches[i].value

\* synthesizeReport was called after the first review had completed last and
\* the reviews had returned different texts.
C19_Witness ==
    /\ script = "code_review"
    /\ fPc = "awaitJoin"
    /\ branches[1].at = 3
    /\ branches[2].at = 1
    /\ branches[1].value # branches[2].value

\* The largest latency of a list.
MaxOf(lats) == CHOOSE m \in {lats[i] : i \in 1..Len(lats)} : \A i \in 1..Len(lats) : lats[i] <= m

\* C20: the three reviews of codeReview are started together: all three are
\* pending or settled as soon as codeReview awaits, and the fan-in completes at
\* the largest of their latencies, not at their sum.
C20_BranchesRunConcurrently ==
    script = "code_review" =>
        /\ fPc = "awaitBranches" => Len(branches) = 3
        /\ \A i \in 1..Len(branches) :
               branches[i].state # "pending" => clock >= latency[i]
        /\ fPc \in {"awaitJoin", "done"} => clock = MaxOf(latency)

\* Latencies 100, 50 and 200: the fan-in completed at 200.
C20_Witness ==
    /\ script = "code_review"
    /\ latency = <<100, 50, 200>>
    /\ fPc = "awaitJoin"
    /\ clock = 200

\* C21: in codeReview a review call that rejects aborts the fan-in, also when
\* the two other calls return: synthesizeReport is not called (no join promise,
\* nothing destructured from Promise.all), codeReview does not return, and once
\* it has rejected with the branch's error it stays rejected.
C21_BranchFailureAbortsReview ==
    /\ []((script = "code_review" /\ SomeRejected(branches)) =>
              /\ joinPromises = <<>>
              /\ joinArgs = <<>>
              /\ fPc \in {"awaitBranches", "rejected"}
              /\ fResult = IF fPc = "rejected" THEN Rejection("BranchFault") ELSE None)
    /\ [][(script = "code_review" /\ fPc = "rejected") =>
              (fPc' = "rejected" /\ joinPromises' = <<>> /\ fResult' = fResult)]_vars

\* codeReview has rejected on the second review call; the first and the third
\* returned their texts.
C21_Witness ==
    /\ script = "code_review"
    /\ fPc = "rejected"
    /\ branches[1].state = "fulfilled"
    /\ branches[2].state = "rejected"
    /\ branches[3].state = "fulfilled"
    /\ joinPromises = <<>>

\* C22: every worker call of an orchestrator turn has its promise as soon as
\* the turn is dispatched, before run() awaits any of them, and the tool-result
\* turn goes to the gateway only when every one of them is fulfilled, with one
\* result for each call.
C22_WorkersDispatchedTogether ==
    /\ [](oPc = "awaitWorkers" =>
              /\ Len(workerPromises) = Len(oCalls)
              /\ oLastSent = None)
    /\ [][(oPc = "loop" /\ oPc' = "awaitWorkers") =>
              \A i \in 1..Len(oCalls') :
                  ~EndsAtDispatch(oCalls'[i].worker) => workerPromises'[i] = Pending]_vars
    /\ [][oGwCalls' > oGwCalls /\ oGwCalls > 0 =>
              /\ Len(workerPromises) = Len(oCalls)
              /\ \A i \in 1..Len(workerPromises) : workerPromises[i].state = "fulfilled"
              /\ Len(oLastSent'.results) = Len(oCalls)]_vars

\* Three workers were pending together; the one called first returned last, and
\* the results of all three are on their way to the gateway.
C22_Witness ==
    /\ oPc = "awaitGateway"
    /\ oGwCalls = 2
    /\ Len(workerPromises) = 3
    /\ \A i \in 1..3 : workerPromises[i].state = "fulfilled"
    /\ workerPromises[1].at = 3

\* C23: a worker call that rejects leaves an error record in its own slot of
\* the results: no promise of the turn is rejected when awaited, and run()
\* rejects only on a gateway fault.
C23_WorkerFaultBecomesPayload ==
    /\ \A i \in 1..Len(workerPromises) : workerPromises[i].state # "rejected"
    /\ oPc = "rejected" => oResult = Rejection("GatewayFault")

\* C30: run() appends to the chat session it finds: every turn in the session
\* stays where it is while runs start, proceed and end, so the session of a
\* later run holds the turns of all runs since the constructor or the last
\* reset(), in run order, and the gateway call of the later run is made on
\* that session.
C30_RunsShareConversation ==
    /\ [](\A r \in (runsStarted - sinceReset + 1)..runsStarted :
              /\ TurnsOf(r, "user") = 1
              /\ \A i, j \in DOMAIN history :
                     (history[i].run = r /\ history[j].run > r) => i < j)
    /\ [][\A a \in Acts, msg \in UserMessages, context \in Contexts :
              StartRun(a, msg, context) =>
                  history' = Append(history, Turn("user", runNo'[a]))]_vars

\* The second run of a session awaits the gateway after a tool round; the
\* session still starts with the turns of the first run.
C30_Witness ==
    \E a \in Acts :
        /\ sinceReset = 2
        /\ runNo[a] = 2
        /\ pc[a] = "awaitGateway"
        /\ gwCalls[a] = 2
        /\ history[1] = Turn("user", 1)
        /\ TurnsOf(1, "model") >= 1
        /\ TurnsOf(2, "tool") = 1

\* The rounds whose calls have been made, and the judge's calls, in dLog.
RoundsStarted == Cardinality({k \in 1..Len(dLog) : dLog[k].agent = "pro"})
JudgeCalls == {k \in 1..Len(dLog) : dLog[k].agent = "judge"}

\* C24: the calls of round i are proAgent's, then conAgent's. In round 1 both
\* get null as opponentArg and send their opening prompt; in a round i > 1
\* proAgent gets the text conAgent returned in round i-1 and conAgent the text
\* proAgent returned in round i-1, and the prompt quotes that text whenever it
\* is not empty.
C24_RebuttalWiring ==
    script = "debate" =>
        \A i \in 1..RoundsStarted :
            LET pro == dLog[2 * i - 1]
                con == dLog[2 * i]
            IN /\ pro.agent = "pro"
               /\ con.agent = "con"
               /\ IF i = 1
                  THEN /\ pro.opponentArg = Null
                       /\ con.opponentArg = Null
                       /\ pro.prompt.kind = "strongest case FOR"
                       /\ con.prompt.kind = "strongest case AGAINST"
                  ELSE /\ dLog[2 * i - 2].state = "fulfilled"
                       /\ dLog[2 * i - 3].state = "fulfilled"
                       /\ pro.opponentArg = Text(dLog[2 * i - 2].reply)
                       /\ con.opponentArg = Text(dLog[2 * i - 3].reply)
                       /\ (pro.opponentArg # Text("")) =>
                              (pro.prompt.kind = "counter"
                               /\ pro.prompt.opponentSaid = dLog[2 * i - 2].reply)
                       /\ (con.opponentArg # Text("")) =>
                              (con.prompt.kind = "counter"
                               /\ con.prompt.opponentSaid = dLog[2 * i - 3].reply)

\* Round 3 has started: proAgent got conAgent's text of round 2, the text
\* "null", which differs from conAgent's text of round 1 and from proAgent's
\* own text of round 2, and it quotes that text in a counter prompt.
C24_Witness ==
    /\ script = "debate"
    /\ RoundsStarted = 3
    /\ dLog[1].reply = "null"
    /\ dLog[2].reply = "p"
    /\ dLog[3].reply = "p"
    /\ dLog[4].reply = "null"
    /\ dLog[5].opponentArg = Text("null")
    /\ dLog[5].prompt.kind = "counter"
    /\ dLog[5].prompt.opponentSaid = "null"
    /\ dLog[6].opponentArg = Text("p")

\* C25: judgeAgent is called once at most, and once when runDebate returns;
\* its call comes after the two generations of every round have returned, and
\* its transcript holds one block for each of the rounds, in ascending round
\* order, with the round's pro text before its con text.
C25_JudgeOnceWithFullTranscript ==
    script = "debate" =>
        /\ Cardinality(JudgeCalls) <= 1
        /\ (dPc = "done") => (Cardinality(JudgeCalls) = 1)
        /\ \A k \in JudgeCalls :
               /\ k = 2 * dRounds + 1
               /\ k = Len(dLog)
               /\ \A j \in 1..(k - 1) : dLog[j].state = "fulfilled"
               /\ Len(dLog[k].prompt.transcript) = dRounds
               /\ \A i \in 1..dRounds :
                      dLog[k].prompt.transcript[i] =
                          <<"=== Round", i, "FOR:", dLog[2 * i - 1].reply,
                            "AGAINST:", dLog[2 * i].reply>>

\* A debate of two rounds has returned; the pro and con texts of each round
\* differ, and so do the two rounds.
C25_Witness ==
    /\ script = "debate"
    /\ dPc = "done"
    /\ dRounds = 2
    /\ dLog[1].reply = "p"
    /\ dLog[2].reply = "null"
    /\ dLog[3].reply = ""
    /\ dLog[4].reply = "p"

\* C26: runDebate makes the calls of no more than rounds rounds, one proAgent
\* call and one conAgent call in each; it calls the judge, and returns, only
\* when it has made and pushed exactly rounds rounds, whatever the texts were.
C26_ExactlyRRounds ==
    script = "debate" =>
        /\ RoundsStarted <= dRounds
        /\ Cardinality({k \in 1..Len(dLog) : dLog[k].agent = "con"}) = RoundsStarted
        /\ (dPc \in {"awaitJudge", "done"}) =>
               (RoundsStarted = dRounds /\ Len(debateRounds) = dRounds)
        /\ (dPc = "done") => (Len(dResult.rounds) = dRounds)

\* A debate of three rounds has returned although both sides said the same
\* thing in every round.
C26_Witness ==
    /\ script = "debate"
    /\ dPc = "done"
    /\ dRounds = 3
    /\ \A k \in 1..6 : dLog[k].reply = "p"
    /\ Len(dResult.rounds) = 3

\* C27: the two generations of a round are issued together, both pending
\* before either is awaited, and only when every generation of the rounds
\* before has returned: a pending generation belongs to the current round.
C27_ConcurrentThenSequential ==
    /\ [](script = "debate" =>
              \A k \in 1..Len(dLog) : dLog[k].state = "pending" => k >= 2 * dI - 1)
    /\ [][Len(dLog') > Len(dLog) =>
              /\ \A k \in 1..Len(dLog) : dLog[k].state = "fulfilled"
              /\ \A k \in (Len(dLog) + 1)..Len(dLog') : dLog'[k].state = "pending"
              /\ (dPc' = "awaitRound") => (Len(dLog') = Len(dLog) + 2)]_vars

\* Round 2: the con generation has returned while the pro generation, issued
\* before it, is still pending.
C27_Witness ==
    /\ script = "debate"
    /\ dPc = "awaitRound"
    /\ dI = 2
    /\ dLog[3].state = "pending"
    /\ dLog[4].state = "fulfilled"

\* The process_refund calls executed so far: all, and those that succeeded.
RefundCalls ==
    {i \in 1..Len(loopTrace) :
        loopTrace[i].ev = "execute" /\ loopTrace[i].name = "process_refund"}
RefundsGranted == {i \in RefundCalls : loopTrace[i].value.success}

\* A call of runSkilledAgent that throws (whatever db.refunds holds and the
\* clock shows), and a batch one of whose calls throws.
CallThrows(c) == SkillToolCall(c.name, c.args, <<>>, 0, 0).threw
SomeCallThrows(cs) == \E k \in 1..Len(cs) : CallThrows(cs[k])

\* The calls of the response during which the event at position i of loopTrace
\* happened: those of the last response received before i.
BatchOf(i) ==
    LET r == CHOOSE r \in 1..(i - 1) :
                 /\ loopTrace[r].ev = "receive"
                 /\ \A m \in (r + 1)..(i - 1) : loopTrace[m].ev # "receive"
    IN SelectCalls(loopTrace[r].parts)

\* The value of the process_refund call at position i of loopTrace was sent in
\* a tool-result turn, with the gateway call that follows the batch.
FedBack(i) ==
    \E j \in (i + 1)..Len(loopTrace) :
        /\ loopTrace[j].ev = "sendResults"
        /\ \A m \in i..(j - 1) : loopTrace[m].ev = "execute"
        /\ \E n \in 1..Len(loopTrace[j].results) :
               loopTrace[j].results[n] =
                   FunctionResponse("process_refund", loopTrace[i].value)

C29_CalculatorScenario ==
    script = "calculator" =>
        ((Len(loopTrace) >= 4
          /\ loopTrace[2] = Received(<<ArgCallPart("add", [a |-> 5, b |-> 3])>>)) =>
            /\ loopTrace[3] = Executed("add", [a |-> 5, b |-> 3], Num(8))
            /\ loopTrace[4] = SentResults(<<FunctionResponse("add", [result |-> Num(8)])>>)
            /\ (Len(loopTrace) >= 7
                /\ loopTrace[5] = Received(<<ArgCallPart("multiply",
                                               [a |-> loopTrace[3].value.number, b |-> 4])>>)) =>
                  /\ loopTrace[6] = Executed("multiply", [a |-> 8, b |-> 4], Num(32))
                  /\ loopTrace[7] =
                         SentResults(<<FunctionResponse("multiply", [result |-> Num(32)])>>)
                  /\ (Len(loopTrace) >= 10
                      /\ loopTrace[8] = Received(<<ArgCallPart("divide",
                                                     [a |-> loopTrace[6].value.number, b |-> 8])>>)) =>
                        /\ loopTrace[9] = Executed("divide", [a |-> 32, b |-> 8], Num(4))
                        /\ loopTrace[10] =
                               SentResults(<<FunctionResponse("divide", [result |-> Num(4)])>>))

\* The three requests were made and answered; the gateway then gave its text
\* and runAgent returned it.
C29_Witness ==
    /\ script = "calculator"
    /\ loopPc = "done"
    /\ Len(loopTrace) = 11
    /\ loopTrace[2] = Received(<<ArgCallPart("add", [a |-> 5, b |-> 3])>>)
    /\ loopTrace[5] = Received(<<ArgCallPart("multiply", [a |-> 8, b |-> 4])>>)
    /\ loopTrace[8] = Received(<<ArgCallPart("divide", [a |-> 32, b |-> 8])>>)
    /\ loopTrace[9].value = Num(4)

\* C31: run() returns success: true exactly when one of the first maxSteps
\* gateway responses holds no tool request: a successful run ended on the
\* response it inspected last, which is at most the maxSteps-th; a run that
\* returns success: false has made maxSteps + 1 gateway calls, answered every
\* inspected response with a tool round, and never inspected the last response
\* it fetched, tool-free or not. With maxSteps = 0 the run makes one gateway
\* call and returns success: false with steps = 0.
C31_SuccessIffToolFreeWithinBudget ==
    \A a \in Acts :
        /\ pc[a] \in {"invoke", "awaitTool", "send"} => SelectCalls(response[a]) # <<>>
        /\ pc[a] = "done" =>
            /\ result[a].success <=>
                   (gwCalls[a] <= maxSteps /\ SelectCalls(response[a]) = <<>>)
            /\ result[a].success =>
                   /\ result[a].steps = gwCalls[a]
                   /\ TurnsOf(runNo[a], "tool") = gwCalls[a] - 1
            /\ ~result[a].success =>
                   /\ gwCalls[a] = maxSteps + 1
                   /\ result[a].steps = maxSteps
                   /\ TurnsOf(runNo[a], "tool") = maxSteps
            /\ maxSteps = 0 =>
                   /\ gwCalls[a] = 1
                   /\ ~result[a].success
                   /\ result[a].steps = 0

\* A run with maxSteps = 1 fetched a tool-free second response and returned
\* success: false without inspecting it.
C31_Witness ==
    \E a \in Acts :
        /\ pc[a] = "done"
        /\ maxSteps = 1
        /\ gwCalls[a] = 2
        /\ SelectCalls(response[a]) = <<>>
        /\ response[a] # <<>>
        /\ result[a].success = FALSE
        /\ result[a].steps = 1

\* getStats() (part_000:129-131).
GetStats == [totalCalls |-> totalCalls, lastSteps |-> stepCount]

\* A step of activation a in which the loop takes one tool request of its
\* batch: the request goes to its function, or gets the unknown-tool payload.
RequestTaken(a) ==
    /\ pc[a] = "invoke"
    /\ \/ inflight'[a] # inflight[a]
       \/ Len(toolResults'[a]) = Len(toolResults[a]) + 1

\* C32: totalCalls never decreases and grows by one exactly when a tool request
\* is taken from a batch, whether its function then returns, throws, or is
\* unknown; starting a run and reset() leave it alone. stepCount is 0 when a
\* run starts and after reset(), and getStats() reports totalCalls and, as
\* lastSteps, that stepCount: after an awaited run, the steps of its result.
C32_TotalCallsAccumulates ==
    /\ [][/\ totalCalls' >= totalCalls
          /\ totalCalls' # totalCalls <=> \E a \in Acts : RequestTaken(a)
          /\ (\E a \in Acts : RequestTaken(a)) => totalCalls' = totalCalls + 1
          /\ runsStarted' # runsStarted => stepCount' = 0 /\ totalCalls' = totalCalls
          /\ (history' = StartChat /\ runsStarted' = runsStarted) =>
                 stepCount' = 0 /\ totalCalls' = totalCalls]_vars
    /\ [](\A a \in Acts :
             pc[a] = "done" =>
                 /\ GetStats.lastSteps = result[a].steps
                 /\ GetStats.totalCalls = totalCalls)

\* The second run of a session, started after a reset(), ended after one tool
\* round: totalCalls holds the requests of both runs and lastSteps the step
\* count of the second.
C32_Witness ==
    \E a \in Acts :
        /\ pc[a] = "done"
        /\ runNo[a] = 2
        /\ sinceReset = 1
        /\ totalCalls = 2
        /\ GetStats.lastSteps = 1
        /\ \E i \in DOMAIN history :
               /\ history[i].role = "tool"
               /\ history[i].run = 2

\* C33: a run() call that overlaps another one on the same instance keeps its
\* own step budget and step count: each of the two sends at most maxSteps
\* tool-result turns, and the steps it reports are the responses it inspected
\* itself (all it received when it succeeds, those it answered with a tool round
\* when it ends on the budget).
C33_OverlapLeavesBudgetAlone ==
    /\ \A r \in 1..runsStarted : TurnsOf(r, "tool") <= maxSteps
    /\ \A a \in Acts :
           pc[a] = "done" =>
               result[a].steps = IF result[a].success
                                 THEN TurnsOf(runNo[a], "model")
                                 ELSE TurnsOf(runNo[a], "tool")

OrchRunning == oPc \in {"awaitGateway", "loop", "awaitWorkers"}
OrchFinished == oPc \in {"done", "rejected"}

\* C34: Orchestrator.run ends once its gateway and worker calls settle. It
\* makes at most six gateway calls, the first and one after each of at most
\* five dispatch rounds, and dispatches workers only for one of the first five
\* responses. A run that returns "Orchestration complete" has made six gateway
\* calls and five dispatch rounds, and left its loop on the sixth test without
\* looking at the sixth response; any other return value is the joined text of
\* a tool-free response among the first five.
C34_OrchestratorTerminates ==
    /\ [](/\ oGwCalls <= OrchMaxIterations + 1
          /\ oPc = "awaitWorkers" =>
                 /\ iteration <= OrchMaxIterations
                 /\ oGwCalls = iteration
          /\ oPc = "done" =>
                 IF oResult = Returned("Orchestration complete")
                 THEN /\ oGwCalls = OrchMaxIterations + 1
                      /\ iteration = OrchMaxIterations + 1
                 ELSE /\ SelectCalls(oResponse) = <<>>
                      /\ oResult = Returned(JoinText(oResponse))
                      /\ iteration <= OrchMaxIterations
                      /\ oGwCalls = iteration)
    /\ OrchRunning ~> OrchFinished

\* Five responses in a row requested workers; the sixth, free of worker calls,
\* was fetched and dropped.
C34_Witness ==
    /\ oPc = "done"
    /\ oResult = Returned("Orchestration complete")
    /\ oGwCalls = 6
    /\ SelectCalls(oResponse) = <<>>
    /\ oResponse # <<>>

\* The record the claim gives a request for a worker that is no key of workers.
UnknownWorkerRecord(w) ==
    [name |-> "call_worker",
     response |-> [worker |-> w, error |-> "Unknown worker: " \o w]]

\* C35: a call_worker request whose worker is no key of the workers object
\* gets the record { worker, error: "Unknown worker: ..." } in its own slot of
\* the turn's results: its promise is fulfilled with that record from the
\* dispatch on, whatever the other workers of the turn do, and the tool-result
\* turn sent next carries it at the request's position.
C35_UnknownWorkerIsError ==
    /\ \A i \in 1..Len(workerPromises) :
           oCalls[i].worker \notin WorkerKeys =>
               /\ workerPromises[i].state = "fulfilled"
               /\ workerPromises[i].value = UnknownWorkerRecord(oCalls[i].worker)
    /\ (oLastSent # None /\ oGwCalls > 1) =>
           \A i \in 1..Len(oCalls) :
               oCalls[i].worker \notin WorkerKeys =>
                   oLastSent.results[i] =
                       FunctionResponse("call_worker",
                                        UnknownWorkerRecord(oCalls[i].worker).response)

\* The tool-result turns runSkilledAgent or runAgent has sent so far.
ResultTurnsSent ==
    Cardinality({i \in DOMAIN loopTrace : loopTrace[i].ev = "sendResults"})

\* A script whose gateway answers every call, and one that requests a tool in
\* every response; one whose tool calls, moreover, all return.
GatewayAnswers(gs) == \A k \in 1..Len(gs) : gs[k] # GatewayRejects
AlwaysRequests(gs) ==
    /\ gs # <<>>
    /\ GatewayAnswers(gs)
    /\ \A k \in 1..Len(gs) : SelectCalls(gs[k]) # <<>>
ToolRoundsOnly(gs) ==
    /\ AlwaysRequests(gs)
    /\ \A k \in 1..Len(gs) : ~SomeCallThrows(SelectCalls(gs[k]))

\* C36 as stated: runSkilledAgent ends if and only if the gateway returns a
\* response without tool requests: when the run has ended, the response
\* received last holds no tool request, and against a gateway that requests a
\* tool in every response the run does not end.
C36_EndsOnlyOnToolFreeResponse ==
    (script = "skilled_agent" /\ GatewayAnswers(gwScript)) =>
        /\ loopPc \in {"done", "rejected"} => SelectCalls(loopResponse) = <<>>
        /\ AlwaysRequests(gwScript) => loopPc \notin {"done", "rejected"}

\* C36: runSkilledAgent has no step budget. It returns only on a response
\* without tool requests, and returns its text on the first such response; it
\* is rejected only when chat.sendMessage rejects or a tool call of the
\* response throws. After any number of rounds, a response with tool requests
\* makes it run the tools and, when all of them return, call the gateway
\* again; when one throws, it is rejected at once. Against a gateway that
\* requests a tool in every response, with calls that all return, it never
\* ends.
C36_SkilledLoopHasNoBudget ==
    /\ [](script = "skilled_agent" =>
             /\ ResultTurnsSent = loopRounds
             /\ loopPc = "done" =>
                    /\ SelectCalls(loopResponse) = <<>>
                    /\ loopResult = Returned(JoinText(loopResponse))
             /\ loopPc = "rejected" =>
                    \/ loopResult = Rejection("GatewayFault")
                    \/ /\ loopResult = Rejection("TypeError")
                       /\ SomeCallThrows(SelectCalls(loopResponse))
             /\ ToolRoundsOnly(gwScript) => loopPc \notin {"done", "rejected"})
    /\ [][(script = "skilled_agent" /\ loopPc = "loop" /\ loopPc' # "loop") =>
             IF SelectCalls(loopResponse) = <<>>
             THEN loopPc' = "done"
             ELSE IF SomeCallThrows(SelectCalls(loopResponse))
             THEN /\ loopPc' = "rejected"
                  /\ loopRounds' = loopRounds
             ELSE /\ loopPc' = "awaitGateway"
                  /\ loopRounds' = loopRounds + 1
                  /\ loopTrace'[Len(loopTrace')].ev = "sendResults"]_vars

\* The gateway has requested a tool in each of MaxLoopRounds + 1 responses;
\* the loop has run the tools each time and is calling the gateway again.
C36_Witness ==
    /\ script = "skilled_agent"
    /\ ToolRoundsOnly(gwScript)
    /\ loopPc = "awaitGateway"
    /\ loopRounds = MaxLoopRounds + 1
    /\ ResultTurnsSent = MaxLoopRounds + 1

\* The position in loopTrace of the response received last.
LastReceive ==
    CHOOSE r \in DOMAIN loopTrace :
        /\ loopTrace[r].ev = "receive"
        /\ \A j \in DOMAIN loopTrace : loopTrace[j].ev = "receive" => j <= r

\* The positions of the requests of cs whose name is no key of tools.
UnknownAt(cs) == {i \in 1..Len(cs) : cs[i].name \notin DOMAIN CalcTools}

\* C37: in the calculator's runAgent, a response holding a request whose name
\* is no key of tools rejects the run with "Unknown tool": once the loop has
\* handled the response, the requests that precede the first such name have
\* been executed, in order, and nothing else has happened: no tool-result turn
\* for that response was sent.
C37_UnknownToolRejectsRun ==
    (script = "calculator" /\ loopPc \in {"awaitGateway", "done", "rejected"}
     /\ \E r \in DOMAIN loopTrace : loopTrace[r].ev = "receive") =>
        LET r == LastReceive
            cs == SelectCalls(loopTrace[r].parts)
        IN UnknownAt(cs) # {} =>
               LET u == CHOOSE i \in UnknownAt(cs) : \A j \in UnknownAt(cs) : i <= j
               IN /\ loopPc = "rejected"
                  /\ loopResult = Rejection("Unknown tool")
                  /\ Len(loopTrace) = r + u - 1
                  /\ \A j \in 1..(u - 1) :
                         /\ loopTrace[r + j].ev = "execute"
                         /\ loopTrace[r + j].name = cs[j].name
                         /\ loopTrace[r + j].args = cs[j].args

\* The gateway calls and the tool requests of a trace of ResearchAgent.run.
SendsOf(trace) == SelectSeq(trace, LAMBDA e : e.ev = "send")
RequestsOf(trace) == SelectSeq(trace, LAMBDA e : e.ev = "request")

\* A tool result without what the two classes shape differently: the fields of
\* the error payload and the wording of the unknown-tool message.
NormalResult(fr) ==
    IF "error" \in DOMAIN fr.response
    THEN [name |-> fr.name,
          error |-> IF fr.response.error \in {UnknownToolMessage(fr.name),
                                              ResearchUnknownMessage(fr.name)}
                    THEN "Unknown tool"
                    ELSE fr.response.error]
    ELSE fr
NormalTurn(t) ==
    IF t.kind = "toolResults"
    THEN [kind |-> t.kind,
          results |-> [i \in 1..Len(t.results) |-> NormalResult(t.results[i])]]
    ELSE t

\* C38: against the same gateway and the same tool map, BaseAgent.run with
\* maxSteps = 15 makes the gateway calls ResearchAgent.run made, with the same
\* arguments up to the shape of error payloads, handles the same tool requests
\* in the same order, and ends as ResearchAgent.run did: after as many gateway
\* calls and steps, with the text where that one returned the text, with
\* success: false where that one returned "Max steps reached", and rejected
\* with the same error where that one was rejected.
C38_ResearchAgentTwin ==
    gwScript # <<>> =>
        /\ rGwCalls <= Len(gwScript)
        /\ \A a \in Acts :
               /\ gwCalls[a] <= Len(gwScript)
               /\ pc[a] = "awaitGateway" =>
                      /\ gwCalls[a] <= Len(SendsOf(rTrace))
                      /\ NormalTurn(lastSent[a]) =
                             NormalTurn(SendsOf(rTrace)[gwCalls[a]].turn)
               /\ pc[a] = "awaitTool" =>
                      /\ totalCalls <= Len(RequestsOf(rTrace))
                      /\ RequestsOf(rTrace)[totalCalls].name = calls[a][idx[a]].name
               /\ Finished(a) =>
                      /\ gwCalls[a] = rGwCalls
                      /\ totalCalls = Len(RequestsOf(rTrace))
                      /\ stepCount = rStepCount
               /\ pc[a] = "rejected" =>
                      /\ rPc = "rejected"
                      /\ rResult = result[a]
               /\ pc[a] = "done" =>
                      /\ rPc = "done"
                      /\ rResult = IF result[a].success
                                   THEN Returned(result[a].response)
                                   ELSE Returned("Max steps reached")
                      /\ result[a].steps = rStepCount

\* Both runs ended on the step budget: fifteen tool rounds whose tools threw,
\* sixteen gateway calls each.
C38_Witness ==
    \E a \in Acts :
        /\ pc[a] = "done"
        /\ result[a].success = FALSE
        /\ result[a].steps = ResearchMaxSteps
        /\ gwCalls[a] = ResearchMaxSteps + 1
        /\ rResult = Returned("Max steps reached")
        /\ toolScript = "throwsError"
        /\ totalCalls = 2 * ResearchMaxSteps

\* C39: whatever create_purchase_order and auto_reorder_low_stock calls were
\* made, no two entries of purchaseOrders have the same poNumber.
C39_PoNumbersDistinct ==
    \A i, j \in DOMAIN purchaseOrders :
        i # j => purchaseOrders[i].poNumber # purchaseOrders[j].poNumber

====
